---- MODULE Spec2Model ----
(***************************************************************************)
(* Framed serial protocol of the STM32N6 face-recognition host tools:      *)
(* the circular byte buffer, the header checksum and STM32 CRC32, the      *)
(* frame synchroniser and the message decoder of                           *)
(* python_tools/robust_protocol.py.                                        *)
(*                                                                         *)
(* Bytes are integers 0..255.  A Python bytes object is a sequence of      *)
(* bytes; the bytearray of the buffer is a function on 0..size-1.          *)
(* A 32-bit value is a pair <<high 16 bits, low 16 bits>>, since the       *)
(* model checker's integers are 32-bit signed.                             *)
(***************************************************************************)
EXTENDS Integers, Sequences, FiniteSets, TLC

VARIABLES cb, last, oversized, tag, threads, receiver, parser, dispatched, wire, sent, call

\* the buffer-only specifications: the buffer, the call just made, whether a write was
\* ever longer than the capacity, the number of the next byte to write, and where the
\* producer and the consumer thread are
\* (threads), and the object of the other receivers and parsers of the repository
\* (receiver); each specification says in its heading what threads and receiver hold
bufVars == <<cb, last, tag, threads, receiver>>
\* the parser specifications: the RobustProtocolParser, the messages given to handlers,
\* the bytes still to arrive, the items the sender transmits, the call just made
parserVars == <<parser, dispatched, wire, sent, call>>
vars == <<cb, last, oversized, tag, threads, receiver, parser, dispatched, wire, sent, call>>

(***************************************************************************)
(* Bounds of the model.                                                    *)
(***************************************************************************)
\* capacity of the CircularBuffer of the buffer-only specification
BufSize == 3
\* a single write of the buffer-only specification is at most BufSize + MaxOver bytes
MaxOver == 2
\* bytes_to_drop adds this many bytes to what is needed; the source adds 1024
\* (robust_protocol.py:159) to a 256 KiB buffer, here scaled with the capacity
DropExtra == 1

\* find_sync scans at most this many bytes in one call; the source scans 4096
\* (robust_protocol.py:290), here scaled with the buffer
SearchWindow == 12
\* capacity of the parser's buffer in the specification of the parser's methods
ParserBufSize == 22
\* add_data is given 1..MaxChunk bytes, or all that is left to arrive
MaxChunk == 3

\* the bytes written in the buffer-only specification are numbered 0, 1, 2, ...
\* modulo TagCount, so that any misplaced byte shows
TagCount == 5

(***************************************************************************)
(* Python helpers.                                                         *)
(***************************************************************************)
\* the value None
None == <<-1>>

Min(a, b) == IF a <= b THEN a ELSE b

\* data[from:to] of a bytes object (0-based, end exclusive, clamped)
Slice(data, from, to) == SubSeq(data, from + 1, Min(to, Len(data)))

\* buffer[start:start+len(data)] = data, for a slice that lies in the bytearray
SliceAssign(buffer, start, data) ==
    [i \in DOMAIN buffer |->
        IF i >= start /\ i < start + Len(data) THEN data[i - start + 1] ELSE buffer[i]]

\* bytes(buffer[from:to])
SliceRead(buffer, from, to) == [k \in 1..(to - from) |-> buffer[from + k - 1]]

(***************************************************************************)
(* CircularBuffer                                                          *)
(***************************************************************************)
NewCircularBuffer(size) ==
    [buffer |-> [i \in 0..(size - 1) |-> 0], size |-> size,
     write_pos |-> 0, read_pos |-> 0, data_available |-> 0]

\* the branch of write taken when the data fits beside the unread bytes
WriteFits(b, data) ==
    LET data_len == Len(data)
        first_chunk == b.size - b.write_pos
    IN  IF b.write_pos + data_len <= b.size
        THEN [b EXCEPT !.buffer = SliceAssign(b.buffer, b.write_pos, data),
                       !.write_pos = (b.write_pos + data_len) % b.size,
                       !.data_available = b.data_available + data_len]
        ELSE [b EXCEPT !.buffer = SliceAssign(SliceAssign(b.buffer, b.write_pos,
                                                          Slice(data, 0, first_chunk)),
                                              0, Slice(data, first_chunk, data_len)),
                       !.write_pos = data_len - first_chunk,
                       !.data_available = b.data_available + data_len]

\* DropOld with the write cursor moved back instead of the read cursor forward
DropOldNewest(b, data_len) ==
    LET bytes_to_drop == Min((data_len - (b.size - b.data_available)) + DropExtra,
                             b.data_available)
    IN  [b EXCEPT !.write_pos = (b.write_pos + b.size - bytes_to_drop) % b.size,
                  !.data_available = b.data_available - bytes_to_drop]

\* the drop of old data at the head of the overflow branch of write
DropOld(b, data_len) ==
    LET space_needed == data_len
        space_available == b.size - b.data_available
        bytes_to_drop == Min((space_needed - space_available) + DropExtra, b.data_available)
    IN  IF space_needed > space_available
        THEN [b EXCEPT !.read_pos = (b.read_pos + bytes_to_drop) % b.size,
                       !.data_available = b.data_available - bytes_to_drop]
        ELSE b

\* the overflow branch of write, after the drop: <<buffer object, data_len>>
WriteOverflow(b, data) ==
    LET data_len == Len(data)
        first_chunk == b.size - b.write_pos
        remaining == data_len - first_chunk
        room == b.size - b.data_available
        head == SliceAssign(b.buffer, b.write_pos, Slice(data, 0, first_chunk))
    IN  IF b.write_pos + data_len <= b.size
        THEN <<[b EXCEPT !.buffer = SliceAssign(b.buffer, b.write_pos, data),
                         !.write_pos = (b.write_pos + data_len) % b.size,
                         !.data_available = Min(b.data_available + data_len, b.size)],
               data_len>>
        ELSE IF remaining <= room
        THEN <<[b EXCEPT !.buffer = SliceAssign(head, 0, Slice(data, first_chunk, data_len)),
                         !.write_pos = remaining,
                         !.data_available = Min(b.data_available + data_len, b.size)],
               data_len>>
        ELSE <<[b EXCEPT !.buffer = SliceAssign(head, 0,
                                                Slice(data, first_chunk, first_chunk + room)),
                         !.write_pos = room,
                         !.data_available = Min(b.data_available + first_chunk + room, b.size)],
               first_chunk + room>>

\* CircularBuffer.write: [b |-> the buffer afterwards, ret |-> the value returned]
Write(b, data) ==
    IF Len(data) = 0 THEN [b |-> b, ret |-> 0]
    ELSE IF b.data_available + Len(data) <= b.size
    THEN [b |-> WriteFits(b, data), ret |-> Len(data)]
    ELSE LET w == WriteOverflow(DropOld(b, Len(data)), data)
         IN  [b |-> w[1], ret |-> w[2]]

\* the bytes peek and consume read: contiguous, or split at the buffer boundary
ReadBytes(b, length) ==
    IF b.read_pos + length <= b.size
    THEN SliceRead(b.buffer, b.read_pos, b.read_pos + length)
    ELSE LET first_chunk == b.size - b.read_pos
         IN  SliceRead(b.buffer, b.read_pos, b.size)
                 \o SliceRead(b.buffer, 0, length - first_chunk)

\* CircularBuffer.peek
Peek(b, length) ==
    IF b.data_available < length THEN None ELSE ReadBytes(b, length)

\* Consume without the final data_available -= length
ConsumeKeepsCount(b, length) ==
    IF b.data_available < length THEN [b |-> b, ret |-> None]
    ELSE [b |-> [b EXCEPT !.read_pos = (b.read_pos + length) % b.size],
          ret |-> ReadBytes(b, length)]

\* CircularBuffer.consume: [b |-> the buffer afterwards, ret |-> the value returned]
Consume(b, length) ==
    IF b.data_available < length THEN [b |-> b, ret |-> None]
    ELSE [b |-> [b EXCEPT !.read_pos = IF b.read_pos + length <= b.size
                                       THEN (b.read_pos + length) % b.size
                                       ELSE length - (b.size - b.read_pos),
                          !.data_available = b.data_available - length],
          ret |-> ReadBytes(b, length)]

\* CircularBuffer.available
Available(b) == b.data_available

\* CircularBuffer.clear
Clear(b) == [b EXCEPT !.read_pos = 0, !.write_pos = 0, !.data_available = 0]

(***************************************************************************)
(* Checksum and CRC engine.                                                *)
(***************************************************************************)
RECURSIVE XorBits(_, _, _)
\* a ^ b for integers below 2^n
XorBits(a, b, n) ==
    IF n = 0 THEN 0
    ELSE ((a + b) % 2) + 2 * XorBits(a \div 2, b \div 2, n - 1)

\* ^ on 32-bit values
Xor32(x, y) == <<XorBits(x[1], y[1], 16), XorBits(x[2], y[2], 16)>>

RECURSIVE XorFold(_, _)
XorFold(data, checksum) ==
    IF data = <<>> THEN checksum
    ELSE XorFold(Tail(data), XorBits(checksum, Head(data), 8))

\* calculate_checksum: the XOR of the bytes, & 0xFF
calculate_checksum(data) == XorFold(data, 0) % 256

\* the polynomial 0x04C11DB7 given to Crc32
Poly == <<1217, 7607>>

\* (c << 1) & 0xFFFFFFFF
Shl1(c) == <<(2 * c[1] + c[2] \div 32768) % 65536, (2 * c[2]) % 65536>>

RECURSIVE TableStep(_, _)
\* the inner loop of Crc32.__init__, j more rounds (kept to 32 bits in every round,
\* which the final & 0xFFFFFFFF of the source makes equivalent)
TableStep(c, j) ==
    IF j = 0 THEN c
    ELSE TableStep(IF c[1] >= 32768 THEN Xor32(Shl1(c), Poly) ELSE Shl1(c), j - 1)

\* Crc32.crc_table
crc_table == [i \in 0..255 |-> TableStep(<<i * 256, 0>>, 8)]

\* the exception raised by an index past the end of a bytes object
IndexError == <<-2>>

\* one round of the byte loop of Crc32.calculate
CrcByte(crc, byte) ==
    Xor32(<<(crc[1] % 256) * 256 + crc[2] \div 256, (crc[2] % 256) * 256>>,
          crc_table[XorBits(crc[1] \div 256, byte, 8)])

RECURSIVE CrcLoop(_, _, _)
\* the while loop of Crc32.calculate from index i on (0-based); the test on crc has
\* TLC compute it after every word instead of all at once at the end
CrcLoop(buf, i, crc) ==
    IF i >= Len(buf) \/ crc = IndexError THEN crc
    ELSE IF i + 3 >= Len(buf) THEN IndexError
    ELSE CrcLoop(buf, i + 4,
                 CrcByte(CrcByte(CrcByte(CrcByte(crc, buf[i + 4]), buf[i + 3]),
                                 buf[i + 2]), buf[i + 1]))

\* Crc32.calculate / calculate_stm32_crc32: the CRC, or IndexError
calculate_stm32_crc32(data) == CrcLoop(data, 0, <<65535, 65535>>)

\* struct.unpack('<I', b)
UnpackU32(b) == <<b[4] * 256 + b[3], b[2] * 256 + b[1]>>

\* struct.pack('<I', v)
PackU32(v) == <<v[2] % 256, v[2] \div 256, v[1] % 256, v[1] \div 256>>

\* struct.unpack('<H', b)
UnpackU16(b) == b[1] + 256 * b[2]

\* struct.pack('<H', v)
PackU16(v) == <<v % 256, v \div 256>>

(***************************************************************************)
(* ProtocolConstants and MessageType                                       *)
(***************************************************************************)
SOF_BYTE == 170
HEADER_SIZE == 4
CRC_SIZE == 4
MAX_PAYLOAD_SIZE == 65536
MSG_HEADER_SIZE == 3

\* every byte value taken for a message type
AnyMessageType == 0..255

\* the values of the MessageType enumeration
MessageType == 1..9
HEARTBEAT == 5
DETECTION_RESULTS == 2
DEBUG_INFO == 9

\* the types RobustProtocolParser.__init__ registers a handler for
DefaultHandlers == 1..5

\* parse_message: max_attempts
max_attempts == 3
\* find_sync counts a sync error when more than this many bytes were skipped
SyncSkipLimit == 10
\* process_messages stops after more than this many consecutive failures
MaxConsecutiveFailures == 5
\* process_messages: the default max_messages
DefaultMaxMessages == 50
\* RobustSerialReader.run: process_messages(max_messages=100)
ReaderMaxMessages == 100

(***************************************************************************)
(* RobustProtocolParser.  The parser object is a record                    *)
(*   [cb, stats, last_sequence_id, log]                                    *)
(* where log lists, for every frame consumed in full, its payload, its     *)
(* CRC bytes and what became of it.                                        *)
(***************************************************************************)
NewStats == [messages_received |-> 0, bytes_received |-> 0, sync_errors |-> 0,
             checksum_errors |-> 0, crc_errors |-> 0, parse_errors |-> 0,
             messages_dropped |-> 0]

NewParser(buffer_size) ==
    [cb |-> NewCircularBuffer(buffer_size), stats |-> NewStats,
     last_sequence_id |-> <<>>, log |-> <<>>]

\* self.stats[key] += n
Count(p, key, n) == [p EXCEPT !.stats[key] = @ + n]

\* RobustProtocolParser.add_data: [p |-> parser afterwards, ret |-> value returned]
add_data(p, data) ==
    IF Len(data) > 0
    THEN LET w == Write(p.cb, data)
         IN  [p |-> Count([p EXCEPT !.cb = w.b], "bytes_received", Len(data)),
              ret |-> w.ret]
    ELSE [p |-> p, ret |-> 0]

\* _validate_header_quickly without the comparison of the checksum
validate_header_no_checksum(header_data) ==
    /\ Len(header_data) >= 4
    /\ header_data[1] = SOF_BYTE
    /\ UnpackU16(SubSeq(header_data, 2, 3)) # 0

\* RobustProtocolParser._validate_header_quickly
validate_header_quickly(header_data) ==
    IF Len(header_data) < 4 THEN FALSE
    ELSE LET sof == header_data[1]
             payload_size == UnpackU16(SubSeq(header_data, 2, 3))
             header_checksum == header_data[4]
         IN  IF sof # SOF_BYTE THEN FALSE
             ELSE IF payload_size > MAX_PAYLOAD_SIZE \/ payload_size = 0 THEN FALSE
             ELSE calculate_checksum(Slice(header_data, 0, 3)) = header_checksum

\* the end of find_sync, after the scan loop ran out
FindSyncEnd(p, max_search, sync_errors_before) ==
    LET bytes_skipped == p.stats.sync_errors - sync_errors_before
                             + (IF max_search > 0 THEN max_search ELSE 0)
    IN  [p |-> IF bytes_skipped > SyncSkipLimit THEN Count(p, "sync_errors", 1) ELSE p,
         ret |-> FALSE]

\* a scan that gives up without consuming a byte
FindSyncStuck(p, i, max_search, sync_errors_before) == [p |-> p, ret |-> FALSE]

RECURSIVE FindSyncLoop(_, _, _, _)
\* the scan loop of find_sync from iteration i on
FindSyncLoop(p, i, max_search, sync_errors_before) ==
    IF i >= max_search THEN FindSyncEnd(p, max_search, sync_errors_before)
    ELSE LET byte_data == Peek(p.cb, 1)
         IN  IF byte_data = None THEN [p |-> p, ret |-> FALSE]
             ELSE IF byte_data[1] = SOF_BYTE /\ Available(p.cb) < HEADER_SIZE
             THEN [p |-> p, ret |-> TRUE]
             ELSE IF /\ byte_data[1] = SOF_BYTE
                     /\ Peek(p.cb, HEADER_SIZE) # None
                     /\ validate_header_quickly(Peek(p.cb, HEADER_SIZE))
             THEN [p |-> p, ret |-> TRUE]
             ELSE FindSyncLoop([p EXCEPT !.cb = Consume(p.cb, 1).b], i + 1,
                               max_search, sync_errors_before)

\* find_sync with the whole buffer for its search window
find_sync_whole_buffer(p) ==
    FindSyncLoop(p, 0, Available(p.cb), p.stats.sync_errors)

\* find_sync with a search window of one byte
find_sync_one_byte(p) ==
    FindSyncLoop(p, 0, Min(1, Available(p.cb)), p.stats.sync_errors)

\* RobustProtocolParser.find_sync: [p, ret |-> TRUE or FALSE]
find_sync(p) ==
    FindSyncLoop(p, 0, Min(SearchWindow, Available(p.cb)), p.stats.sync_errors)

\* RobustProtocolParser.parse_header: [p, ret |-> <<payload_size, checksum>> or None]
parse_header(p) ==
    LET header_data == Peek(p.cb, HEADER_SIZE)
    IN  IF header_data = None THEN [p |-> p, ret |-> None]
        ELSE IF header_data[1] # SOF_BYTE THEN [p |-> p, ret |-> None]
        ELSE LET payload_size == UnpackU16(SubSeq(header_data, 2, 3))
                 header_checksum == header_data[4]
             IN  IF payload_size = 0 \/ payload_size > MAX_PAYLOAD_SIZE
                 THEN [p |-> Count(p, "parse_errors", 1), ret |-> None]
                 ELSE IF calculate_checksum(Slice(header_data, 0, 3)) # header_checksum
                 THEN [p |-> Count(p, "checksum_errors", 1), ret |-> None]
                 ELSE [p |-> p, ret |-> <<payload_size, header_checksum>>]

\* the CRC32 taken over the whole payload, message header included
WholePayload(payload_data) == payload_data

\* the region the CRC32 covers: the payload after the message header
ActualPayload(payload_data) == Slice(payload_data, MSG_HEADER_SIZE, Len(payload_data))

\* validate_crc32 that accepts every CRC
validate_crc32_any(payload, expected_crc32) == TRUE

\* validate_crc32, where calculate_stm32_crc32 does not raise
validate_crc32(payload, expected_crc32) ==
    LET calculated_crc32 == calculate_stm32_crc32(payload)
    IN  calculated_crc32 = expected_crc32

\* self.last_sequence_id.get(msg_type, default)
LastSeqGet(p, msg_type, default) ==
    IF msg_type \in DOMAIN p.last_sequence_id THEN p.last_sequence_id[msg_type]
    ELSE default

\* the dropped-message count with a gap of 1000 counted as well
DroppedCountUpTo1000(sequence_id, last_seq) ==
    LET dropped == (sequence_id - last_seq - 1) % 65536
    IN  IF dropped > 0 /\ dropped <= 1000 THEN dropped ELSE 0

\* the dropped-message count parse_message adds for sequence_id after last_seq
DroppedCount(sequence_id, last_seq) ==
    IF sequence_id # (last_seq + 1) % 65536
    THEN LET dropped == (sequence_id - last_seq - 1) % 65536
         IN  IF dropped > 0 /\ dropped < 1000 THEN dropped ELSE 0
    ELSE 0

\* an entry of the log
Logged(payload_data, crc32_bytes, outcome) ==
    [payload |-> payload_data, crc |-> crc32_bytes, outcome |-> outcome]

\* the None that parse_message returns in place of a ProtocolMessage
NoMessage == [msg_type |-> 0, sequence_id |-> 0, payload |-> <<>>]

\* parse_message after the retry loop: the message header within the payload
DecodeMessage(p, payload_data, crc32_bytes) ==
    IF Len(payload_data) < MSG_HEADER_SIZE
    THEN [p |-> [Count(p, "parse_errors", 1) EXCEPT
                    !.log = Append(@, Logged(payload_data, crc32_bytes, "too_small"))],
          ret |-> NoMessage, raised |-> FALSE]
    ELSE LET msg_type_int == payload_data[1]
             sequence_id == UnpackU16(SubSeq(payload_data, 2, 3))
             message_payload == Slice(payload_data, MSG_HEADER_SIZE, Len(payload_data))
         IN  IF msg_type_int \notin MessageType
             THEN [p |-> [Count(p, "parse_errors", 1) EXCEPT
                            !.log = Append(@, Logged(payload_data, crc32_bytes,
                                                     "unknown_type"))],
                   ret |-> NoMessage, raised |-> FALSE]
             ELSE LET last_seq == LastSeqGet(p, msg_type_int, sequence_id - 1)
                      counted == Count(Count(p, "messages_dropped",
                                             DroppedCount(sequence_id, last_seq)),
                                       "messages_received", 1)
                  IN  [p |-> [counted EXCEPT
                                !.last_sequence_id =
                                    [t \in DOMAIN @ \cup {msg_type_int} |->
                                        IF t = msg_type_int THEN sequence_id ELSE @[t]],
                                !.log = Append(@, Logged(payload_data, crc32_bytes,
                                                         "message"))],
                       ret |-> [msg_type |-> msg_type_int, sequence_id |-> sequence_id,
                                payload |-> message_payload],
                       raised |-> FALSE]

RECURSIVE ParseAttempt(_, _)
\* one round of the retry loop of parse_message after its find_sync call returned fs
ParseAfterSync(p, attempt, fs) ==
    LET hd == parse_header(fs.p)
        payload_size == hd.ret[1]
        total_size == HEADER_SIZE + payload_size + CRC_SIZE
        header_read == Consume(hd.p.cb, HEADER_SIZE)
        body_read == Consume(header_read.b, payload_size + CRC_SIZE)
        payload_data == Slice(body_read.ret, 0, payload_size)
        crc32_bytes == Slice(body_read.ret, payload_size, Len(body_read.ret))
        actual_payload == ActualPayload(payload_data)
        crc_ok == validate_crc32(actual_payload, UnpackU32(crc32_bytes))
        consumed == [hd.p EXCEPT !.cb = body_read.b]
        Retry(q) == IF attempt = max_attempts - 1
                    THEN [p |-> q, ret |-> NoMessage, raised |-> FALSE]
                    ELSE ParseAttempt(q, attempt + 1)
    IN  IF ~fs.ret THEN [p |-> fs.p, ret |-> NoMessage, raised |-> FALSE]
        ELSE IF hd.ret = None
        THEN Retry([hd.p EXCEPT !.cb = Consume(hd.p.cb, 1).b])
        ELSE IF Available(hd.p.cb) < total_size
        THEN [p |-> hd.p, ret |-> NoMessage, raised |-> FALSE]
        ELSE IF header_read.ret = None \/ header_read.ret = <<>>
        THEN Retry([hd.p EXCEPT !.cb = header_read.b])
        ELSE IF body_read.ret = None \/ body_read.ret = <<>>
        THEN Retry(Count([hd.p EXCEPT !.cb = body_read.b], "parse_errors", 1))
        ELSE IF calculate_stm32_crc32(actual_payload) = IndexError
        THEN [p |-> [consumed EXCEPT
                        !.log = Append(@, Logged(payload_data, crc32_bytes, "raised"))],
              ret |-> NoMessage, raised |-> TRUE]
        ELSE IF ~crc_ok
        THEN Retry([Count(consumed, "crc_errors", 1) EXCEPT
                        !.log = Append(@, Logged(payload_data, crc32_bytes, "crc_error"))])
        ELSE DecodeMessage(consumed, payload_data, crc32_bytes)

\* the retry loop of parse_message from the given attempt on:
\* [p, ret |-> message or NoMessage, raised |-> whether an exception left the method]
ParseAttempt(p, attempt) ==
    IF attempt >= max_attempts THEN [p |-> p, ret |-> NoMessage, raised |-> FALSE]
    ELSE ParseAfterSync(p, attempt, find_sync(p))

\* RobustProtocolParser.parse_message
parse_message(p) == ParseAttempt(p, 0)

RECURSIVE ProcessLoop(_, _, _, _, _, _)
\* the loop of process_messages with `left` iterations to go:
\* [p, handled |-> the messages given to handlers, ret |-> processed, raised]
ProcessLoop(p, handlers, handled, left, processed, consecutive_failures) ==
    IF left = 0
    THEN [p |-> p, handled |-> handled, ret |-> processed, raised |-> FALSE]
    ELSE LET m == parse_message(p)
         IN  IF m.raised
             THEN [p |-> m.p, handled |-> handled, ret |-> processed, raised |-> TRUE]
             ELSE IF m.ret = NoMessage
             THEN IF consecutive_failures + 1 > MaxConsecutiveFailures
                  THEN [p |-> m.p, handled |-> handled, ret |-> processed,
                        raised |-> FALSE]
                  ELSE ProcessLoop(m.p, handlers, handled, left - 1, processed,
                                   consecutive_failures + 1)
             ELSE IF m.ret.msg_type \in handlers
             THEN ProcessLoop(m.p, handlers, Append(handled, m.ret), left - 1,
                              processed + 1, 0)
             ELSE ProcessLoop(m.p, handlers, handled, left - 1, processed, 0)

\* RobustProtocolParser.process_messages
process_messages(p, handlers, handled, max_messages) ==
    ProcessLoop(p, handlers, handled, max_messages, 0, 0)

(***************************************************************************)
(* The buffer-only specification: one CircularBuffer(BufSize) and its      *)
(* public methods called in any order.  last records the call just made.   *)
(***************************************************************************)
\* n bytes numbered from t on
Tagged(t, n) == [k \in 1..n |-> (t + k - 1) % TagCount]

\* no call of a parser method yet
NoParserCall == [op |-> "init", ret |-> 0, raised |-> FALSE, msg |-> NoMessage]

NoCall == [op |-> "init", data |-> <<>>, n |-> 0, ret |-> <<>>, retn |-> 0, evicted |-> 0]

\* EnhancedProtocolReceiver after __init__, with what its last read_message call did:
\* next is the number of frames it has read, mismatch whether the call printed
\* "Sequence mismatch"
NoReceiver == [sequence_counters |-> <<>>,
               stats |-> [packets_received |-> 0, packets_valid |-> 0, crc_errors |-> 0,
                          header_errors |-> 0, bytes_received |-> 0],
               next |-> 0, returned |-> FALSE, mismatch |-> FALSE]

\* no thread is in a method of the buffer
NoThreads == [lock |-> "free", producer |-> [pc |-> "idle", data |-> <<>>],
              consumer |-> [pc |-> "idle", op |-> "none", n |-> 0]]

InitBuf ==
    /\ cb = NewCircularBuffer(BufSize)
    /\ last = NoCall
    /\ oversized = FALSE
    /\ tag = 0
    /\ threads = NoThreads
    /\ receiver = NoReceiver
    /\ parser = NewParser(BufSize)
    /\ dispatched = <<>>
    /\ wire = <<>>
    /\ sent = <<>>
    /\ call = NoParserCall

BufWrite ==
    \E n \in 0..(BufSize + MaxOver) :
        LET data == Tagged(tag, n)
            w == Write(cb, data)
        IN  /\ cb' = w.b
            /\ tag' = (tag + n) % TagCount
            /\ UNCHANGED <<threads, receiver, parserVars>>
            /\ last' = [NoCall EXCEPT !.op = "write", !.data = data, !.retn = w.ret,
                                      !.evicted = cb.data_available + w.ret
                                                      - w.b.data_available]
            /\ oversized' = (oversized \/ Len(data) > cb.size)

BufPeek ==
    \E n \in 0..(BufSize + 1) :
        /\ last' = [NoCall EXCEPT !.op = "peek", !.n = n, !.ret = Peek(cb, n)]
        /\ UNCHANGED <<cb, oversized, tag, threads, receiver, parserVars>>

BufConsume ==
    \E n \in 0..(BufSize + 1) :
        LET c == Consume(cb, n)
        IN  /\ cb' = c.b
            /\ last' = [NoCall EXCEPT !.op = "consume", !.n = n, !.ret = c.ret]
            /\ UNCHANGED <<oversized, tag, threads, receiver, parserVars>>

BufAvailable ==
    /\ last' = [NoCall EXCEPT !.op = "available", !.retn = Available(cb)]
    /\ UNCHANGED <<cb, oversized, tag, threads, receiver, parserVars>>

BufClear ==
    /\ cb' = Clear(cb)
    /\ last' = [NoCall EXCEPT !.op = "clear"]
    /\ UNCHANGED <<oversized, tag, threads, receiver, parserVars>>

NextBuf == BufWrite \/ BufPeek \/ BufConsume \/ BufAvailable \/ BufClear

SpecBuf == InitBuf /\ [][NextBuf]_vars

(***************************************************************************)
(* Claims about the CircularBuffer.                                        *)
(***************************************************************************)
\* the unread bytes, oldest first
Unread(b) == ReadBytes(b, b.data_available)

\* the last n elements of s
LastN(s, n) == SubSeq(s, Len(s) - n + 1, Len(s))

\* C5: after any calls of write, peek, consume and clear, 0 <= data_available <= size,
\* both cursors are below size and (read_pos + data_available) mod size = write_pos
C5_CursorInvariant ==
    /\ 0 <= cb.data_available /\ cb.data_available <= cb.size
    /\ cb.read_pos < cb.size
    /\ cb.write_pos < cb.size
    /\ (cb.read_pos + cb.data_available) % cb.size = cb.write_pos

\* C6: after a write of more bytes than the capacity, available() is the capacity and
\* consume(capacity) returns the last `capacity` bytes of the data, in order
C6_OversizeKeepsNewest ==
    (last.op = "write" /\ Len(last.data) > cb.size) =>
        /\ Available(cb) = cb.size
        /\ Consume(cb, cb.size).ret = LastN(last.data, cb.size)

\* C7: while no write was longer than the capacity, write returns len(data), the newest
\* len(data) unread bytes are the data, the unread bytes before them are a suffix of the
\* bytes unread before the call, and nothing is dropped when the data fits
C7_FifoWrite ==
    [][(last'.op = "write" /\ ~oversized') =>
        LET before == Unread(cb)
            after == Unread(cb')
            n == Len(last'.data)
            k == Len(after) - n
        IN  /\ last'.retn = n
            /\ k >= 0 /\ k <= Len(before)
            /\ LastN(after, n) = last'.data
            /\ SubSeq(after, 1, k) = LastN(before, k)
            /\ (Len(before) + n <= cb.size => k = Len(before))]_vars

\* C7 witness: a write of at most the capacity evicted some unread bytes and kept others
C7_Witness ==
    /\ last.op = "write" /\ ~oversized
    /\ last.evicted > 0
    /\ cb.data_available > Len(last.data)

\* C8: peek changes nothing; consume(n) with n > available() returns None and changes
\* nothing; consume(n) with n <= available() returns what peek(n) returns and reduces
\* available() by n
C8_PeekConsumeFrame ==
    [][/\ (last'.op = "peek" =>
             /\ cb' = cb
             /\ last'.ret = IF last'.n <= Available(cb)
                             THEN SubSeq(Unread(cb), 1, last'.n) ELSE None)
       /\ (last'.op = "consume" /\ last'.n > Available(cb) =>
             last'.ret = None /\ cb' = cb)
       /\ (last'.op = "consume" /\ last'.n <= Available(cb) =>
             /\ last'.ret = Peek(cb, last'.n)
             /\ Available(cb') = Available(cb) - last'.n
             /\ Unread(cb') = LastN(Unread(cb), Available(cb) - last'.n))]_vars

\* C8 witness: a consume of two or more bytes that wrapped around the end of the buffer
C8_Witness ==
    /\ last.op = "consume" /\ last.ret # None /\ last.n >= 2
    /\ cb.read_pos > 0 /\ cb.read_pos < last.n

(***************************************************************************)
(* The sender.  A transmission is a sequence of items; the item at         *)
(* position i carries sequence id i, so that the frames of a transmission  *)
(* are all different.                                                      *)
(***************************************************************************)
\* create_test_message: the frame header and the payload it frames
FrameHead(msg_type, sequence_id, body) ==
    LET full_payload == <<msg_type>> \o PackU16(sequence_id) \o body
        header_data == <<SOF_BYTE>> \o PackU16(Len(full_payload))
    IN  header_data \o <<calculate_checksum(header_data)>> \o full_payload

\* a frame as parse_message accepts it: header, payload, and the little-endian
\* CRC32 of the bytes after the message header
Frame(msg_type, sequence_id, body) ==
    FrameHead(msg_type, sequence_id, body) \o PackU32(calculate_stm32_crc32(body))

DetBody == <<1, 2, 3, 4>>

FrameKinds == {"hb", "det", "dbg"}
NoiseKinds == {"n55", "nAA", "nAA03", "hdr"}
BadKinds == {"badcrc", "unk", "odd", "short"}

\* the message type and body of a frame kind
KindType(k) == IF k = "hb" THEN HEARTBEAT ELSE IF k = "det" THEN DETECTION_RESULTS
               ELSE DEBUG_INFO
KindBody(k) == IF k = "det" THEN DetBody ELSE <<>>

\* the bytes of the item of kind k at position i
Item(k, i) ==
    CASE k \in FrameKinds -> Frame(KindType(k), i, KindBody(k))
      [] k = "badcrc" -> FrameHead(HEARTBEAT, i, <<>>) \o <<255, 255, 255, 254>>
      [] k = "unk" -> Frame(10, i, <<>>)
      [] k = "odd" -> FrameHead(HEARTBEAT, i, <<7>>) \o <<0, 0, 0, 0>>
      [] k = "short" -> <<SOF_BYTE, 2, 0, 168, HEARTBEAT, i, 255, 255, 255, 255>>
      [] k = "n55" -> <<85>>
      [] k = "nAA" -> <<SOF_BYTE>>
      [] k = "nAA03" -> <<SOF_BYTE, 3>>
      [] k = "hdr" -> <<SOF_BYTE, 3, 0, 169>>

\* the message a well-formed frame of kind k at position i carries
ItemMessage(k, i) == [msg_type |-> KindType(k), sequence_id |-> i, payload |-> KindBody(k)]

RECURSIVE Flatten(_, _)
\* the bytes of the items from position i on
Flatten(items, i) ==
    IF i > Len(items) THEN <<>> ELSE Item(items[i], i) \o Flatten(items, i + 1)

AllKinds == FrameKinds \cup NoiseKinds \cup BadKinds

\* the transmissions of the parser specification: one item of any kind, an item of
\* any kind before or after a heartbeat frame, and two or three frames in a row
Transmissions ==
    {<<k>> : k \in AllKinds} \cup {<<k, "hb">> : k \in AllKinds}
        \cup {<<"hb", k>> : k \in AllKinds} \cup {<<"det", "dbg">>, <<"hb", "hb", "hb">>}

(***************************************************************************)
(* The specification of the parser's methods: add_data, process_messages   *)
(* and parse_message called in any order while the transmission arrives.   *)
(***************************************************************************)
InitParser(size, transmissions) ==
    /\ parser = NewParser(size)
    /\ dispatched = <<>>
    /\ sent \in transmissions
    /\ wire = Flatten(sent, 1)
    /\ call = NoParserCall
    /\ oversized = FALSE
    /\ cb = NewCircularBuffer(BufSize)
    /\ last = NoCall
    /\ tag = 0
    /\ threads = NoThreads
    /\ receiver = NoReceiver

Init == InitParser(ParserBufSize, Transmissions)

\* the next n bytes arrive and are given to add_data
Deliver(n) ==
    LET data == SubSeq(wire, 1, n)
        a == add_data(parser, data)
    IN  /\ parser' = a.p
        /\ wire' = SubSeq(wire, n + 1, Len(wire))
        /\ oversized' = (oversized \/ n > parser.cb.size)
        /\ call' = [NoParserCall EXCEPT !.op = "add_data", !.ret = a.ret]
        /\ UNCHANGED <<dispatched, sent, bufVars>>

AddData ==
    \E n \in (1..MaxChunk) \cup {Len(wire)} :
        /\ n >= 1 /\ n <= Len(wire)
        /\ Deliver(n)

ProcessMessages ==
    \E r \in {process_messages(parser, DefaultHandlers, dispatched, DefaultMaxMessages)} :
        /\ parser' = r.p
        /\ dispatched' = r.handled
        /\ call' = [NoParserCall EXCEPT !.op = "process_messages", !.ret = r.ret,
                                        !.raised = r.raised]
        /\ UNCHANGED <<wire, sent, oversized, bufVars>>

ParseMessage ==
    \E r \in {parse_message(parser)} :
        /\ parser' = r.p
        /\ call' = [NoParserCall EXCEPT !.op = "parse_message", !.msg = r.ret,
                                        !.raised = r.raised]
        /\ UNCHANGED <<dispatched, wire, sent, oversized, bufVars>>

Next == AddData \/ ProcessMessages \/ ParseMessage

Spec == Init /\ [][Next]_vars

(***************************************************************************)
(* Claims about the parser.                                                *)
(***************************************************************************)
\* the well-formed frames a transmission can hold
WellFormedFrames == {Item(k, i) : k \in FrameKinds, i \in 1..3}

\* u is a proper, non-empty prefix of a well-formed frame
ProperFramePrefix(u) ==
    \E f \in WellFormedFrames :
        /\ Len(u) >= 1 /\ Len(u) < Len(f)
        /\ u = SubSeq(f, 1, Len(u))

\* the messages of the well-formed frames of a transmission, in the order sent
RECURSIVE FrameMessages(_, _)
FrameMessages(items, i) ==
    IF i > Len(items) THEN <<>>
    ELSE (IF items[i] \in FrameKinds THEN <<ItemMessage(items[i], i)>> ELSE <<>>)
             \o FrameMessages(items, i + 1)

RECURSIVE IsSubsequence(_, _)
\* a is b with some elements left out
IsSubsequence(a, b) ==
    IF a = <<>> THEN TRUE
    ELSE IF b = <<>> THEN FALSE
    ELSE IF Head(a) = Head(b) THEN IsSubsequence(Tail(a), Tail(b))
    ELSE IsSubsequence(a, Tail(b))

\* the entries of the log with the given outcome
Outcomes(log, outcome) == {i \in 1..Len(log) : log[i].outcome = outcome}

\* the message of a log entry
LogMessage(e) ==
    [msg_type |-> e.payload[1], sequence_id |-> UnpackU16(SubSeq(e.payload, 2, 3)),
     payload |-> SubSeq(e.payload, MSG_HEADER_SIZE + 1, Len(e.payload))]

\* C1: when the unread bytes are a proper prefix of one well-formed frame, parse_message
\* returns None and leaves the unread bytes as they were
C1_PrefixUntouched ==
    [][(call'.op = "parse_message" /\ ProperFramePrefix(Unread(parser.cb))) =>
          /\ call'.msg = NoMessage
          /\ ~call'.raised
          /\ Unread(parser'.cb) = Unread(parser.cb)]_vars

\* C3: a message is returned, counted in messages_received and given to a handler only
\* for a frame whose trailing little-endian CRC is the STM32 CRC32 of its payload
\* region; a frame whose CRC comparison failed is counted in crc_errors and nothing else
C3_OnlyValidCrcDelivered ==
    /\ \A i \in Outcomes(parser.log, "message") :
          LET e == parser.log[i]
          IN  e.crc = PackU32(calculate_stm32_crc32(
                                  SubSeq(e.payload, MSG_HEADER_SIZE + 1, Len(e.payload))))
    /\ \A i \in Outcomes(parser.log, "crc_error") :
          LET e == parser.log[i]
          IN  e.crc # PackU32(calculate_stm32_crc32(
                                  SubSeq(e.payload, MSG_HEADER_SIZE + 1, Len(e.payload))))
    /\ parser.stats.messages_received = Cardinality(Outcomes(parser.log, "message"))
    /\ parser.stats.crc_errors = Cardinality(Outcomes(parser.log, "crc_error"))
    /\ \A j \in 1..Len(dispatched) :
          \E i \in Outcomes(parser.log, "message") : dispatched[j] = LogMessage(parser.log[i])
    /\ (call.op = "parse_message" /\ call.msg # NoMessage) =>
          /\ parser.log # <<>>
          /\ parser.log[Len(parser.log)].outcome = "message"
          /\ call.msg = LogMessage(parser.log[Len(parser.log)])

\* C3 witness: a frame failed its CRC comparison and a later frame was given to a handler
C3_Witness ==
    /\ Outcomes(parser.log, "crc_error") # {}
    /\ Outcomes(parser.log, "message") # {}
    /\ dispatched # <<>>

\* C4: parse_message and process_messages never raise an exception
C4_NeverRaises == ~call.raised

\* C9: the messages given to handlers are a subsequence of the well-formed frames sent
C9_DispatchedInOrder == IsSubsequence(dispatched, FrameMessages(sent, 1))

(***************************************************************************)
(* The specification of the reader thread: every step is one iteration of  *)
(* the loop of RobustSerialReader.run, which gives the bytes waiting on    *)
(* the port to add_data and then calls process_messages(100).  An          *)
(* exception is caught by the loop.                                        *)
(***************************************************************************)
InitReader == InitParser(ParserBufSize, Transmissions)

ReaderIteration ==
    \E bytes_waiting \in (0..MaxChunk) \cup {Len(wire)} :
        /\ bytes_waiting <= Len(wire)
        /\ \E r \in {process_messages(add_data(parser, SubSeq(wire, 1, bytes_waiting)).p,
                                      DefaultHandlers, dispatched, ReaderMaxMessages)} :
              /\ parser' = r.p
              /\ dispatched' = r.handled
              /\ call' = [NoParserCall EXCEPT !.op = "run", !.ret = r.ret,
                                              !.raised = r.raised]
        /\ wire' = SubSeq(wire, bytes_waiting + 1, Len(wire))
        /\ oversized' = (oversized \/ bytes_waiting > parser.cb.size)
        /\ UNCHANGED <<sent, bufVars>>

NextReader == ReaderIteration

SpecReader == InitReader /\ [][NextReader]_vars

\* the kinds of well-formed frame whose type has a handler
HandledKinds == {k \in FrameKinds : KindType(k) \in DefaultHandlers}

\* C2: a well-formed frame that arrives in chunks, with process_messages called after
\* each chunk, is given to its handler exactly once, by the call after the last chunk
C2_SplitFrameDispatched ==
    (Len(sent) = 1 /\ sent[1] \in HandledKinds) =>
        dispatched = IF wire = <<>> /\ call.op = "run" THEN <<ItemMessage(sent[1], 1)>>
                     ELSE <<>>

(***************************************************************************)
(* The specification of sync recovery: the buffer is given noise, one      *)
(* well-formed frame and more noise in one add_data call, and              *)
(* process_messages is called on it.  Here sent records the noise before   *)
(* the frame, the kind of the frame and the noise after it.                *)
(***************************************************************************)
RECURSIVE Run(_, _)
\* n bytes of value b
Run(b, n) == IF n = 0 THEN <<>> ELSE <<b>> \o Run(b, n - 1)

\* process_messages gives up after this many bytes without a start marker
ScanReach == (MaxConsecutiveFailures + 1) * SearchWindow

NoiseBytes == {85, 3, SOF_BYTE}

NoiseBefore ==
    {Run(85, n) : n \in 0..(ScanReach + 1)}
        \cup {<<a>> : a \in NoiseBytes} \cup {<<a, b>> : a \in NoiseBytes, b \in NoiseBytes}
        \cup {<<85, SOF_BYTE, 3>>, <<SOF_BYTE, 3, 0, 169>>}

NoiseAfter ==
    {<<>>, <<85>>, <<SOF_BYTE>>, <<85, 85>>, <<SOF_BYTE, 3>>, <<SOF_BYTE, 3, 0, 169>>}

SyncBufSize == ScanReach + 24

InitSync ==
    /\ parser = NewParser(SyncBufSize)
    /\ dispatched = <<>>
    /\ sent \in [before : NoiseBefore, kind : HandledKinds, after : NoiseAfter]
    /\ wire = sent.before \o Item(sent.kind, 1) \o sent.after
    /\ call = NoParserCall
    /\ oversized = FALSE
    /\ cb = NewCircularBuffer(BufSize)
    /\ last = NoCall
    /\ tag = 0
    /\ threads = NoThreads
    /\ receiver = NoReceiver

SyncAdd ==
    /\ wire # <<>>
    /\ Deliver(Len(wire))

SyncProcess ==
    /\ wire = <<>>
    /\ ProcessMessages

NextSync == SyncAdd \/ SyncProcess

SpecSync == InitSync /\ [][NextSync]_vars

\* no byte of the noise is the start marker
NoSOF(noise) == \A i \in 1..Len(noise) : noise[i] # SOF_BYTE

\* C10: process_messages on noise, one well-formed frame and more noise returns without
\* an exception and gives exactly that frame's message to a handler
C10_OneMessage ==
    (wire = <<>> /\ call.op = "process_messages") =>
        /\ ~call.raised
        /\ dispatched = <<ItemMessage(sent.kind, 1)>>

\* the case of C10 that the code meets: neither noise holds the start marker 0xAA and
\* the noise before the frame is shorter than (5 + 1) search windows
C10_OneMessageCleanNoise ==
    (/\ wire = <<>> /\ call.op = "process_messages"
     /\ NoSOF(sent.before) /\ NoSOF(sent.after)
     /\ Len(sent.before) < ScanReach) =>
        /\ ~call.raised
        /\ dispatched = <<ItemMessage(sent.kind, 1)>>

(***************************************************************************)
(* Claims about single frames at the head of the parser's buffer.          *)
(***************************************************************************)
\* the payload size the header at the head of u declares
HeadSize(u) == UnpackU16(SubSeq(u, 2, 3))

\* the payload, the body after the message header and the CRC bytes of the frame at
\* the head of u
HeadPayload(u) == SubSeq(u, HEADER_SIZE + 1, HEADER_SIZE + HeadSize(u))
HeadBody(u) == SubSeq(HeadPayload(u), MSG_HEADER_SIZE + 1, HeadSize(u))
HeadCrc(u) == SubSeq(u, HEADER_SIZE + HeadSize(u) + 1, HEADER_SIZE + HeadSize(u) + CRC_SIZE)

\* u begins with a fully buffered frame that has a valid header
FullFrameAtHead(u) ==
    /\ Len(u) >= HEADER_SIZE
    /\ validate_header_quickly(SubSeq(u, 1, HEADER_SIZE))
    /\ Len(u) >= HEADER_SIZE + HeadSize(u) + CRC_SIZE

\* u begins with a fully buffered frame whose CRC comparison fails
BadCrcAtHead(u) ==
    /\ FullFrameAtHead(u)
    /\ calculate_stm32_crc32(HeadBody(u)) # IndexError
    /\ HeadCrc(u) # PackU32(calculate_stm32_crc32(HeadBody(u)))

\* the parser after the frame at the head of its buffer was consumed and tallied
\* under the given counter and outcome
FrameDiscarded(p, key, outcome) ==
    LET u == Unread(p.cb)
        n == HEADER_SIZE + HeadSize(u) + CRC_SIZE
    IN  [Count([p EXCEPT !.cb = Consume(p.cb, n).b], key, 1) EXCEPT
            !.log = Append(@, Logged(HeadPayload(u), HeadCrc(u), outcome))]

\* the result of the parse_message call just made
Returned == [p |-> parser', ret |-> call'.msg, raised |-> call'.raised]

\* C11: parse_message on a fully buffered frame with a valid header and a failing CRC
\* comparison adds 1 to crc_errors for it, consumes its 4+N+4 bytes, produces no message
\* for it, and goes on with the sync scan at the byte after those bytes
C11_CrcFailureDiscardsFrame ==
    [][(call'.op = "parse_message" /\ BadCrcAtHead(Unread(parser.cb))) =>
          LET u == Unread(parser.cb)
              n == HEADER_SIZE + HeadSize(u) + CRC_SIZE
              q == FrameDiscarded(parser, "crc_errors", "crc_error")
          IN  /\ Unread(q.cb) = SubSeq(u, n + 1, Len(u))
              /\ q.stats.crc_errors = parser.stats.crc_errors + 1
              /\ Returned = ParseAttempt(q, 1)
              /\ Len(parser'.log) > Len(parser.log)
              /\ parser'.log[Len(parser.log) + 1].outcome = "crc_error"
              /\ parser'.stats.messages_received - parser.stats.messages_received
                    = Cardinality({i \in Len(parser.log) + 2 .. Len(parser'.log) :
                                      parser'.log[i].outcome = "message"})]_vars

\* C11 witness: one parse_message call discarded a frame for its CRC and returned the
\* message of the frame after it
C11_Witness ==
    /\ call.op = "parse_message" /\ call.msg # NoMessage
    /\ parser.stats.crc_errors = 1
    /\ Len(parser.log) = 2 /\ parser.log[1].outcome = "crc_error"
    /\ sent = <<"badcrc", "hb">>
    /\ parser.stats.bytes_received = Len(Flatten(sent, 1))

(***************************************************************************)
(* The specification of sequence tracking: up to three well-formed frames  *)
(* with sequence ids of the sender's choice are given to add_data in one   *)
(* call and parse_message is called on them.  Here sent lists the kind and *)
(* the sequence id of every frame.                                         *)
(***************************************************************************)
\* sequence ids around the two ends of the 16-bit range and of the drop count's range
SeqIds == {0, 1, 2, 1001, 1002, 65535}

SeqFrames == [kind : HandledKinds, seq : SeqIds]

SeqTransmissions ==
    {<<f>> : f \in SeqFrames} \cup {<<f, g>> : f \in SeqFrames, g \in SeqFrames}
        \cup {<<f, g, h>> : f \in SeqFrames, g \in SeqFrames, h \in SeqFrames}

RECURSIVE SeqFlatten(_, _)
\* the bytes of the frames from position i on
SeqFlatten(frames, i) ==
    IF i > Len(frames) THEN <<>>
    ELSE Frame(KindType(frames[i].kind), frames[i].seq, KindBody(frames[i].kind))
             \o SeqFlatten(frames, i + 1)

SeqBufSize == 2 * ParserBufSize + 4

InitSeq ==
    /\ parser = NewParser(SeqBufSize)
    /\ dispatched = <<>>
    /\ sent \in SeqTransmissions
    /\ wire = SeqFlatten(sent, 1)
    /\ call = NoParserCall
    /\ oversized = FALSE
    /\ cb = NewCircularBuffer(BufSize)
    /\ last = NoCall
    /\ tag = 0
    /\ threads = NoThreads
    /\ receiver = NoReceiver

SeqAdd ==
    /\ wire # <<>>
    /\ Deliver(Len(wire))

SeqParse ==
    /\ wire = <<>>
    /\ ParseMessage

NextSeq == SeqAdd \/ SeqParse

SpecSeq == InitSeq /\ [][NextSeq]_vars

\* the accepted messages of the given type, in the order accepted
AcceptedOfType(log, t) ==
    SelectSeq(log, LAMBDA e : e.outcome = "message" /\ e.payload[1] = t)

\* C12: an accepted message with sequence id b whose type was last accepted with
\* sequence id a adds d = (b - a - 1) mod 65536 to messages_dropped when 1 <= d <= 999
\* and 0 otherwise; the first message of a type adds 0; b becomes the last sequence id of
\* the type and those of the other types stay
C12_DroppedCount ==
    [][(call'.op = "parse_message" /\ call'.msg # NoMessage) =>
          LET t == call'.msg.msg_type
              b == call'.msg.sequence_id
              before == AcceptedOfType(parser.log, t)
              a == LogMessage(before[Len(before)]).sequence_id
              d == (b + 65536 - a - 1) % 65536
              added == parser'.stats.messages_dropped - parser.stats.messages_dropped
          IN  /\ added = IF before # <<>> /\ 1 <= d /\ d <= 999 THEN d ELSE 0
              /\ DOMAIN parser'.last_sequence_id = DOMAIN parser.last_sequence_id \cup {t}
              /\ parser'.last_sequence_id[t] = b
              /\ \A o \in DOMAIN parser.last_sequence_id \ {t} :
                    parser'.last_sequence_id[o] = parser.last_sequence_id[o]]_vars

\* C12 witness: a gap of 999 was counted across a message of another type
C12_Witness ==
    /\ call.op = "parse_message" /\ call.msg # NoMessage
    /\ Len(sent) = 3 /\ Len(parser.log) = 3
    /\ sent[1].kind = sent[3].kind /\ sent[2].kind # sent[1].kind
    /\ sent[1].seq = 1 /\ sent[3].seq = 1001
    /\ parser.stats.messages_dropped = 999

\* u begins with a fully buffered frame with a valid header and a valid CRC whose
\* message type byte is not one of 0x01..0x09
UnknownTypeAtHead(u) ==
    /\ FullFrameAtHead(u)
    /\ HeadSize(u) >= MSG_HEADER_SIZE
    /\ calculate_stm32_crc32(HeadBody(u)) # IndexError
    /\ HeadCrc(u) = PackU32(calculate_stm32_crc32(HeadBody(u)))
    /\ HeadPayload(u)[1] \notin 1..9

\* C13: parse_message on a frame with a valid header, a valid CRC and an unknown message
\* type returns no message, adds 1 to parse_errors, consumes the whole frame, and leaves
\* messages_received, messages_dropped and the last sequence ids as they were
C13_UnknownTypeDiscarded ==
    [][(call'.op = "parse_message" /\ UnknownTypeAtHead(Unread(parser.cb))) =>
          LET u == Unread(parser.cb)
              n == HEADER_SIZE + HeadSize(u) + CRC_SIZE
          IN  /\ call'.msg = NoMessage /\ ~call'.raised
              /\ Unread(parser'.cb) = SubSeq(u, n + 1, Len(u))
              /\ parser'.stats = [parser.stats EXCEPT !.parse_errors = @ + 1]
              /\ parser'.last_sequence_id = parser.last_sequence_id
              /\ parser' = FrameDiscarded(parser, "parse_errors", "unknown_type")]_vars

\* C13 witness: parse_message discarded a frame of unknown type and left the frame
\* after it at the head of the buffer
C13_Witness ==
    /\ call.op = "parse_message" /\ call.msg = NoMessage
    /\ sent = <<"unk", "hb">>
    /\ parser.stats.parse_errors = 1
    /\ Len(parser.log) = 1 /\ parser.log[1].outcome = "unknown_type"
    /\ Unread(parser.cb) = Item("hb", 2)

(***************************************************************************)
(* The specification of draining: a transmission of one or two items, each *)
(* a well-formed frame of a handled type, noise, a frame of unknown type   *)
(* or a frame with a wrong CRC, is given to add_data in one call, and      *)
(* process_messages is called once with max_messages the number of         *)
(* well-formed frames the transmission holds.                              *)
(***************************************************************************)
DrainKinds == HandledKinds \cup {"n55", "nAA", "badcrc", "unk"}

DrainTransmissions ==
    {<<a>> : a \in DrainKinds} \cup {<<a, b>> : a \in DrainKinds, b \in DrainKinds}

\* the messages of the well-formed frames of a handled type, in the order sent
HandledMessages(items) ==
    SelectSeq(FrameMessages(items, 1), LAMBDA m : m.msg_type \in DefaultHandlers)

InitDrain == InitParser(SeqBufSize, DrainTransmissions)

DrainAdd ==
    /\ wire # <<>>
    /\ Deliver(Len(wire))

DrainProcess ==
    /\ call.op = "add_data"
    /\ \E r \in {process_messages(parser, DefaultHandlers, dispatched,
                                  Len(HandledMessages(sent)))} :
          /\ parser' = r.p
          /\ dispatched' = r.handled
          /\ call' = [NoParserCall EXCEPT !.op = "process_messages", !.ret = r.ret,
                                          !.raised = r.raised]
    /\ UNCHANGED <<wire, sent, oversized, bufVars>>

NextDrain == DrainAdd \/ DrainProcess

SpecDrain == InitDrain /\ [][NextDrain]_vars

\* C14: one call process_messages(k) on a buffer that holds k complete well-formed
\* frames of handled types, with whatever else before or between them, gives all k to
\* their handlers and returns k
C14_DrainsAllFrames ==
    call.op = "process_messages" =>
        /\ ~call.raised
        /\ call.ret = Len(HandledMessages(sent))
        /\ dispatched = HandledMessages(sent)

(***************************************************************************)
(* DetectionDataParser.parse_detections.  A 32-bit integer is the pair     *)
(* UnpackU32 gives; a float is the sequence of its four bytes.             *)
(***************************************************************************)
\* the bytes of a detection before its keypoints
DetectionSizeNoCount == 6 * 4
DetectionSize == 28
\* the bytes of a keypoint
KeypointSize == 8
\* the largest detection count parse_detections accepts
MaxDetections == 100

\* the floats packed in data, four bytes each
RECURSIVE UnpackFloats(_)
UnpackFloats(data) ==
    IF Len(data) < 4 THEN <<>>
    ELSE <<SubSeq(data, 1, 4)>> \o UnpackFloats(SubSeq(data, 5, Len(data)))

RECURSIVE DetectionLoop(_, _, _)
\* the loop of parse_detections with `left` detections to go, from the given offset
DetectionLoop(payload, left, offset) ==
    IF left = 0 \/ offset + DetectionSize > Len(payload) THEN <<>>
    ELSE LET class_id == UnpackU32(Slice(payload, offset, offset + 4))
             floats == UnpackFloats(Slice(payload, offset + 4, offset + 24))
             kp_count == UnpackU32(Slice(payload, offset + DetectionSize - 4,
                                         offset + DetectionSize))
             after == offset + DetectionSize
             fits == kp_count[1] = 0 /\ after + kp_count[2] * KeypointSize <= Len(payload)
             kp_size == IF fits THEN kp_count[2] * KeypointSize ELSE 0
             keypoints == UnpackFloats(Slice(payload, after, after + kp_size))
         IN  <<[class_id |-> class_id, x |-> floats[1], y |-> floats[2], w |-> floats[3],
                h |-> floats[4], confidence |-> floats[5], keypoints |-> keypoints]>>
                 \o DetectionLoop(payload, left - 1, after + kp_size)

\* the None that parse_detections returns in place of (frame_id, detections)
NoDetections == [frame_id |-> <<>>, detections |-> <<>>]

\* DetectionDataParser.parse_detections: [frame_id, detections] or NoDetections
parse_detections(payload) ==
    IF Len(payload) < 8 THEN NoDetections
    ELSE LET frame_id == UnpackU32(Slice(payload, 0, 4))
             detection_count == UnpackU32(Slice(payload, 4, 8))
         IN  IF detection_count[1] > 0 \/ detection_count[2] > MaxDetections
             THEN NoDetections
             ELSE [frame_id |-> frame_id,
                   detections |-> DetectionLoop(payload, detection_count[2], 8)]

(***************************************************************************)
(* The specification of the unit tests: one message is framed, given to    *)
(* add_data in one call and process_messages is called, with a handler     *)
(* registered for the message's type.  Here sent is the message with       *)
(* whether its frame carries the CRC32: create_test_message of the tests   *)
(* appends none.                                                           *)
(***************************************************************************)
\* the floats 0.5, 0.2, 0.3 and 0.85 in little-endian IEEE 754 single precision
Float05 == <<0, 0, 0, 63>>
Float02 == <<205, 204, 76, 62>>
Float03 == <<154, 153, 153, 62>>
Float085 == <<154, 153, 89, 63>>

\* create_test_detection_data: one detection of class i with no keypoints
TestDetection(i) ==
    PackU32(<<0, i>>) \o Float05 \o Float05 \o Float02 \o Float03 \o Float085
        \o PackU32(<<0, 0>>)

\* create_test_detection_data: frame_id 123 and two detections
TestDetectionPayload ==
    PackU32(<<0, 123>>) \o PackU32(<<0, 2>>) \o TestDetection(0) \o TestDetection(1)

TestBodies ==
    {<<>>, DetBody, TestDetectionPayload, SubSeq(TestDetectionPayload, 1, 36)}

TestMessages ==
    [msg_type : {DEBUG_INFO, DETECTION_RESULTS, HEARTBEAT}, seq : {0, 2, 100},
     body : TestBodies, crc : BOOLEAN]

\* the bytes given to add_data for the message
TestFrame(m) ==
    IF m.crc THEN Frame(m.msg_type, m.seq, m.body)
    ELSE FrameHead(m.msg_type, m.seq, m.body)

\* the message the handler is to see
TestMessage(m) == [msg_type |-> m.msg_type, sequence_id |-> m.seq, payload |-> m.body]

TestBufSize == 4 * ParserBufSize

InitTest ==
    /\ parser = NewParser(TestBufSize)
    /\ dispatched = <<>>
    /\ sent \in TestMessages
    /\ wire = TestFrame(sent)
    /\ call = NoParserCall
    /\ oversized = FALSE
    /\ cb = NewCircularBuffer(BufSize)
    /\ last = NoCall
    /\ tag = 0
    /\ threads = NoThreads
    /\ receiver = NoReceiver

TestAdd ==
    /\ wire # <<>>
    /\ Deliver(Len(wire))

TestProcess ==
    /\ call.op = "add_data"
    /\ \E r \in {process_messages(parser, DefaultHandlers \cup {sent.msg_type}, dispatched,
                                  DefaultMaxMessages)} :
          /\ parser' = r.p
          /\ dispatched' = r.handled
          /\ call' = [NoParserCall EXCEPT !.op = "process_messages", !.ret = r.ret,
                                          !.raised = r.raised]
    /\ UNCHANGED <<wire, sent, oversized, bufVars>>

NextTest == TestAdd \/ TestProcess

SpecTest == InitTest /\ [][NextTest]_vars

\* C15: a frame as create_test_message builds it, header and payload with nothing after
\* it, is parsed: process_messages returns 1, the handler of the type gets the body once,
\* messages_received is 1 and bytes_received is the length of the frame
C15_TestFrameParsed ==
    (call.op = "process_messages" /\ ~sent.crc) =>
        /\ call.ret = 1
        /\ dispatched = <<TestMessage(sent)>>
        /\ parser.stats.messages_received = 1
        /\ parser.stats.bytes_received = Len(TestFrame(sent))

\* the frame of the detection test: DETECTION_RESULTS with frame_id 123 and two
\* detections, framed with its CRC32
IsDetectionTest ==
    /\ sent.crc /\ sent.msg_type = DETECTION_RESULTS /\ sent.body = TestDetectionPayload

CheckVector == <<49, 50, 51, 52, 53, 54, 55, 56, 57>>

CrcBytes == {0, 1, 255}

\* every byte string over CrcBytes of up to four bytes, the test vector and its first
\* eight bytes
CrcInputs ==
    UNION {[1..n -> CrcBytes] : n \in 0..4} \cup {CheckVector, SubSeq(CheckVector, 1, 8)}

InitCrc ==
    /\ sent \in CrcInputs
    /\ last = NoCall
    /\ parser = NewParser(ParserBufSize)
    /\ dispatched = <<>>
    /\ wire = <<>>
    /\ call = NoParserCall
    /\ oversized = FALSE
    /\ cb = NewCircularBuffer(BufSize)
    /\ tag = 0
    /\ threads = NoThreads
    /\ receiver = NoReceiver

CrcCalculate ==
    /\ last.op = "init"
    /\ last' = [NoCall EXCEPT !.op = "calculate_stm32_crc32", !.data = sent,
                              !.ret = calculate_stm32_crc32(sent)]
    /\ UNCHANGED <<sent, cb, tag, threads, receiver, oversized, parser, dispatched, wire, call>>

NextCrc == CrcCalculate

SpecCrc == InitCrc /\ [][NextCrc]_vars

\* C17: calculate_stm32_crc32 returns a 32-bit value for every byte string, those of a
\* length that is not a multiple of 4 included
C17_CrcIsU32 ==
    last.op = "calculate_stm32_crc32" =>
        /\ last.ret # IndexError
        /\ Len(last.ret) = 2
        /\ last.ret[1] \in 0..65535 /\ last.ret[2] \in 0..65535

(***************************************************************************)
(* The specification of header validation: the header of a payload size    *)
(* in 1..65535 is built, for the sizes of HeaderSizes at most one of its   *)
(* bytes is changed, and _validate_header_quickly and parse_header are     *)
(* applied to it.  Here sent is the payload size, wire the four bytes and  *)
(* last the results.                                                       *)
(***************************************************************************)
\* payload sizes at the ends of 1..65535 and around the byte and marker values
HeaderSizes == {1, 2, 3, 170, 255, 256, 257, 43520, 43523, 43690, 65280, 65535}

\* create_test_message: the header of a payload of the given size
Header(payload_size) ==
    LET header_data == <<SOF_BYTE>> \o PackU16(payload_size)
    IN  header_data \o <<calculate_checksum(header_data)>>

InitHeader ==
    /\ sent \in 1..65535
    /\ wire = Header(sent)
    /\ last = NoCall
    /\ parser = NewParser(ParserBufSize)
    /\ dispatched = <<>>
    /\ call = NoParserCall
    /\ oversized = FALSE
    /\ cb = NewCircularBuffer(BufSize)
    /\ tag = 0
    /\ threads = NoThreads
    /\ receiver = NoReceiver

\* one byte of the header is changed to any different value
HeaderCorrupt ==
    /\ last.op = "init" /\ wire = Header(sent)
    /\ sent \in HeaderSizes
    /\ \E i \in 1..HEADER_SIZE : \E v \in 0..255 :
          /\ v # wire[i]
          /\ wire' = [wire EXCEPT ![i] = v]
    /\ UNCHANGED <<sent, last, cb, tag, threads, receiver, oversized, parser, dispatched, call>>

\* the four bytes are validated, and parsed from the buffer of a parser
HeaderValidate ==
    /\ last.op = "init"
    /\ last' = [NoCall EXCEPT
                  !.op = "validate", !.data = wire,
                  !.ret = [quick |-> validate_header_quickly(wire),
                           parsed |-> parse_header(add_data(parser, wire).p).ret]]
    /\ UNCHANGED <<sent, wire, cb, tag, threads, receiver, oversized, parser, dispatched, call>>

NextHeader == HeaderCorrupt \/ HeaderValidate

SpecHeader == InitHeader /\ [][NextHeader]_vars

\* C18: the header of a payload size passes _validate_header_quickly and parse_header
\* and parses back to the size, and with any one of its 4 bytes changed it fails both
C18_HeaderRoundTrip ==
    last.op = "validate" =>
        LET intact == <<SOF_BYTE, sent % 256, sent \div 256>>
        IN  IF SubSeq(last.data, 1, 3) = intact /\ last.data = wire /\ wire = Header(sent)
            THEN /\ last.ret.quick
                 /\ last.ret.parsed # None
                 /\ last.ret.parsed[1] = sent
            ELSE /\ ~last.ret.quick
                 /\ last.ret.parsed = None

\* C18 witness: a header whose size byte was changed into the start marker failed
\* validation
C18_Witness ==
    /\ last.op = "validate"
    /\ last.data # Header(sent)
    /\ last.data[2] = SOF_BYTE /\ last.data[1] = SOF_BYTE
    /\ ~last.ret.quick /\ last.ret.parsed = None

(***************************************************************************)
(* The specification of the buffer shared by two threads: a producer that  *)
(* calls write and a consumer that calls peek, consume and available.      *)
(* Every method body is a `with self.lock:` block: a thread that called a  *)
(* method waits for the lock, and runs the body and releases the lock in   *)
(* one step, since no other thread can be in a body meanwhile.             *)
(***************************************************************************)
InitThreads == InitBuf

\* the producer calls write(data); empty data returns 0 without the lock
ProducerCall ==
    /\ threads.producer.pc = "idle"
    /\ \E n \in 0..(BufSize + MaxOver) :
          LET data == Tagged(tag, n)
          IN  /\ tag' = (tag + n) % TagCount
              /\ IF n = 0
                 THEN /\ last' = [NoCall EXCEPT !.op = "write"]
                      /\ UNCHANGED threads
                 ELSE /\ threads' = [threads EXCEPT
                                       !.producer = [pc |-> "waiting", data |-> data]]
                      /\ UNCHANGED last
    /\ UNCHANGED <<cb, oversized, receiver, parserVars>>

\* the producer enters `with self.lock:`
ProducerLock ==
    /\ threads.producer.pc = "waiting" /\ threads.lock = "free"
    /\ threads' = [threads EXCEPT !.lock = "producer", !.producer.pc = "locked"]
    /\ UNCHANGED <<cb, last, tag, oversized, receiver, parserVars>>

\* the body of write, and the release of the lock
ProducerWrite ==
    /\ threads.producer.pc = "locked"
    /\ LET w == Write(cb, threads.producer.data)
       IN  /\ cb' = w.b
           /\ last' = [NoCall EXCEPT !.op = "write", !.retn = w.ret]
           /\ oversized' = (oversized \/ Len(threads.producer.data) > cb.size)
    /\ threads' = [threads EXCEPT !.lock = "free", !.producer = NoThreads.producer]
    /\ UNCHANGED <<tag, receiver, parserVars>>

\* the consumer calls peek(n), consume(n) or available()
ConsumerCall ==
    /\ threads.consumer.pc = "idle"
    /\ \E op \in {"peek", "consume", "available"} : \E n \in 1..BufSize :
          /\ op = "available" => n = 1
          /\ threads' = [threads EXCEPT !.consumer = [pc |-> "waiting", op |-> op, n |-> n]]
    /\ UNCHANGED <<cb, last, tag, oversized, receiver, parserVars>>

\* the consumer enters `with self.lock:`
ConsumerLock ==
    /\ threads.consumer.pc = "waiting" /\ threads.lock = "free"
    /\ threads' = [threads EXCEPT !.lock = "consumer", !.consumer.pc = "locked"]
    /\ UNCHANGED <<cb, last, tag, oversized, receiver, parserVars>>

\* the body of peek, consume or available, and the release of the lock
ConsumerRun ==
    /\ threads.consumer.pc = "locked"
    /\ LET op == threads.consumer.op
           n == threads.consumer.n
       IN  CASE op = "peek" ->
                  /\ last' = [NoCall EXCEPT !.op = "peek", !.ret = Peek(cb, n)]
                  /\ UNCHANGED cb
             [] op = "consume" ->
                  /\ last' = [NoCall EXCEPT !.op = "consume", !.ret = Consume(cb, n).ret]
                  /\ cb' = Consume(cb, n).b
             [] op = "available" ->
                  /\ last' = [NoCall EXCEPT !.op = "available", !.retn = Available(cb)]
                  /\ UNCHANGED cb
    /\ threads' = [threads EXCEPT !.lock = "free", !.consumer = NoThreads.consumer]
    /\ UNCHANGED <<tag, oversized, receiver, parserVars>>

NextThreads ==
    \/ ProducerCall \/ ProducerLock \/ ProducerWrite
    \/ ConsumerCall \/ ConsumerLock \/ ConsumerRun

SpecThreads == InitThreads /\ [][NextThreads]_vars

\* the bytes are in the order the producer wrote them, none left out
Contiguous(bytes) ==
    \A k \in 1..(Len(bytes) - 1) : bytes[k + 1] = (bytes[k] + 1) % TagCount

\* C19: the producer and the consumer are never both in a method body, and every value
\* peek or consume returns is a run of bytes in the order the producer wrote them
C19_NoTornRead ==
    /\ ~(threads.producer.pc = "locked" /\ threads.consumer.pc = "locked")
    /\ (last.op \in {"peek", "consume"} /\ last.ret # None) => Contiguous(last.ret)
\* the same while no write was longer than the capacity
C19_NoTornReadFitting == oversized \/ C19_NoTornRead

(***************************************************************************)
(* Claims about what the caller of add_data learns of bytes that write     *)
(* discarded.                                                              *)
(***************************************************************************)
\* the number of bytes the step gave to add_data
Given == Len(wire) - Len(wire')

\* the number of unread bytes the write of the step discarded
Discarded == parser.cb.data_available + Given - parser'.cb.data_available

\* C20: whenever the write of add_data discards unread bytes, the value add_data returns
\* is short by the number discarded, or a counter of the statistics changes by that number
C20_LossObservable ==
    [][(Given > 0 /\ Discarded > 0) =>
           \/ call'.ret = Given - Discarded
           \/ \E key \in DOMAIN parser.stats :
                 parser'.stats[key] - parser.stats[key] = Discarded]_vars

(***************************************************************************)
(* The specification of the parser shared by two threads: a receiver that  *)
(* calls add_data and a parser thread that calls parse_message.  Only the  *)
(* methods of the buffer take the lock, so parse_message is a sequence of  *)
(* steps (find_sync, parse_header, available, consume, consume) between    *)
(* which add_data can write.  The scan of find_sync is taken as one step.  *)
(* `threads` holds the parser thread's position and local variables:       *)
(* validated is the header parse_header accepted, expected the frame that  *)
(* began with it when the size check passed, header and body what the two  *)
(* consume calls returned, loop the process_messages call that called      *)
(* parse_message, if one did.                                              *)
(***************************************************************************)
\* no process_messages call is under way
NoLoop == [pc |-> "idle", max_messages |-> 0, calls |-> 0, processed |-> 0,
           consecutive_failures |-> 0]

RaceIdle == [pc |-> "idle", attempt |-> 0, payload_size |-> 0, validated |-> <<>>,
             expected |-> <<>>, header |-> <<>>, body |-> <<>>, loop |-> NoLoop]

\* transmissions longer than the buffer, so that a write can evict unread bytes
RaceTransmissions == {t \in Transmissions : Len(Flatten(t, 1)) > ParserBufSize}

InitRace ==
    /\ parser = NewParser(ParserBufSize)
    /\ dispatched = <<>>
    /\ sent \in RaceTransmissions
    /\ wire = Flatten(sent, 1)
    /\ call = NoParserCall
    /\ oversized = FALSE
    /\ cb = NewCircularBuffer(BufSize)
    /\ last = NoCall
    /\ tag = 0
    /\ threads = RaceIdle
    /\ receiver = NoReceiver

\* parse_message goes on to its next buffer call
RaceGo(p, t) ==
    /\ parser' = p
    /\ threads' = t
    /\ UNCHANGED call

\* parse_message returns: the thread is outside the method again
RaceReturn(p, t, msg, raised) ==
    /\ parser' = p
    /\ threads' = [t EXCEPT !.pc = "idle"]
    /\ call' = [NoParserCall EXCEPT !.op = "parse_message", !.msg = msg, !.raised = raised]

\* `if attempt == max_attempts - 1: return None`, else `continue`
RaceRetry(p, t) ==
    IF t.attempt = max_attempts - 1
    THEN RaceReturn(p, t, NoMessage, FALSE)
    ELSE RaceGo(p, [RaceIdle EXCEPT !.pc = "find_sync", !.attempt = t.attempt + 1,
                                    !.loop = t.loop])

\* the receiver thread: add_data with the next bytes
RaceAddData ==
    \E n \in 1..MaxChunk : n <= Len(wire) /\ Deliver(n)

\* the parser thread calls parse_message
RaceCall ==
    /\ threads.pc = "idle"
    /\ threads' = [RaceIdle EXCEPT !.pc = "find_sync", !.loop = threads.loop]
    /\ UNCHANGED <<parser, call, dispatched, wire, sent, oversized, cb, last, tag, receiver>>

\* `if not self.find_sync(): return None`
RaceFindSync ==
    /\ threads.pc = "find_sync"
    /\ \E fs \in {find_sync(parser)} :
          IF fs.ret
          THEN RaceGo(fs.p, [threads EXCEPT !.pc = "parse_header"])
          ELSE RaceReturn(fs.p, threads, NoMessage, FALSE)
    /\ UNCHANGED <<dispatched, wire, sent, oversized, cb, last, tag, receiver>>

\* header_info = self.parse_header()
RaceParseHeader ==
    /\ threads.pc = "parse_header"
    /\ \E hd \in {parse_header(parser)} :
          IF hd.ret = None
          THEN RaceGo(hd.p, [threads EXCEPT !.pc = "drop_sof"])
          ELSE RaceGo(hd.p, [threads EXCEPT !.pc = "available",
                                            !.payload_size = hd.ret[1],
                                            !.validated = Peek(parser.cb, HEADER_SIZE)])
    /\ UNCHANGED <<dispatched, wire, sent, oversized, cb, last, tag, receiver>>

\* invalid header: self.buffer.consume(1), and the end of the attempt
RaceDropSof ==
    /\ threads.pc = "drop_sof"
    /\ RaceRetry([parser EXCEPT !.cb = Consume(parser.cb, 1).b], threads)
    /\ UNCHANGED <<dispatched, wire, sent, oversized, cb, last, tag, receiver>>

\* `if self.buffer.available() < total_size: return None`
RaceAvailable ==
    /\ threads.pc = "available"
    /\ LET total_size == HEADER_SIZE + threads.payload_size + CRC_SIZE
       IN  IF Available(parser.cb) < total_size
           THEN RaceReturn(parser, threads, NoMessage, FALSE)
           ELSE RaceGo(parser, [threads EXCEPT !.pc = "consume_header",
                                               !.expected = Peek(parser.cb, total_size)])
    /\ UNCHANGED <<dispatched, wire, sent, oversized, cb, last, tag, receiver>>

\* header_data = self.buffer.consume(HEADER_SIZE)
RaceConsumeHeader ==
    /\ threads.pc = "consume_header"
    /\ LET header_read == Consume(parser.cb, HEADER_SIZE)
       IN  IF header_read.ret = None
           THEN RaceRetry(parser, threads)
           ELSE RaceGo([parser EXCEPT !.cb = header_read.b],
                       [threads EXCEPT !.pc = "consume_body", !.header = header_read.ret])
    /\ UNCHANGED <<dispatched, wire, sent, oversized, cb, last, tag, receiver>>

\* payload_and_crc = self.buffer.consume(payload_size + CRC_SIZE), the CRC32 check and
\* the rest of parse_message, which calls the buffer no more
RaceConsumeBody ==
    /\ threads.pc = "consume_body"
    /\ LET payload_size == threads.payload_size
           body_read == Consume(parser.cb, payload_size + CRC_SIZE)
           payload_data == Slice(body_read.ret, 0, payload_size)
           crc32_bytes == Slice(body_read.ret, payload_size, Len(body_read.ret))
           actual_payload == ActualPayload(payload_data)
           consumed == [parser EXCEPT !.cb = body_read.b]
           t == [threads EXCEPT !.body = body_read.ret]
       IN  IF body_read.ret = None
           THEN RaceRetry(Count(parser, "parse_errors", 1), threads)
           ELSE IF calculate_stm32_crc32(actual_payload) = IndexError
           THEN RaceReturn([consumed EXCEPT
                               !.log = Append(@, Logged(payload_data, crc32_bytes, "raised"))],
                           t, NoMessage, TRUE)
           ELSE IF ~validate_crc32(actual_payload, UnpackU32(crc32_bytes))
           THEN RaceRetry([Count(consumed, "crc_errors", 1) EXCEPT
                              !.log = Append(@, Logged(payload_data, crc32_bytes,
                                                       "crc_error"))], t)
           ELSE \E d \in {DecodeMessage(consumed, payload_data, crc32_bytes)} :
                   RaceReturn(d.p, t, d.ret, d.raised)
    /\ UNCHANGED <<dispatched, wire, sent, oversized, cb, last, tag, receiver>>

NextRace ==
    \/ RaceAddData \/ RaceCall \/ RaceFindSync \/ RaceParseHeader \/ RaceDropSof
    \/ RaceAvailable \/ RaceConsumeHeader \/ RaceConsumeBody

SpecRace == InitRace /\ [][NextRace]_vars

\* C21: the 4 bytes parse_message consumes as the header are the 4 bytes parse_header
\* validated, and the payload and CRC bytes it consumes are the ones that followed them
C21_ConsumesValidatedFrame ==
    /\ threads.header # <<>> => threads.header = threads.validated
    /\ threads.body # <<>> => threads.header \o threads.body = threads.expected

\* a frame consumed as validated, with no write in between, and returned as a message
C21_Witness ==
    /\ threads.pc = "idle" /\ threads.body # <<>>
    /\ threads.header \o threads.body = threads.expected
    /\ call.msg # NoMessage

(***************************************************************************)
(* The specification of a frame that lost bytes in transit, followed by an *)
(* intact heartbeat frame: the bytes arrive, and process_messages is       *)
(* called again and again with nothing more arriving.                      *)
(***************************************************************************)
\* the bodies of the frame that loses bytes: none, 4 bytes, 12 bytes
LossBodies == {<<>>, DetBody, Run(7, 12)}

\* the frame sent first, and the run of its bytes after the header that is lost
LossCases ==
    {c \in [body : LossBodies, from : (HEADER_SIZE + 1)..(HEADER_SIZE + MSG_HEADER_SIZE + 16),
            lost : 1..(MSG_HEADER_SIZE + 16)] :
        c.from + c.lost - 1 <= Len(Frame(DETECTION_RESULTS, 1, c.body))}

\* the bytes that arrive: the first frame without the lost run, then the heartbeat frame
LossWire(c) ==
    LET f == Frame(DETECTION_RESULTS, 1, c.body)
    IN  SubSeq(f, 1, c.from - 1) \o SubSeq(f, c.from + c.lost, Len(f))
            \o Frame(HEARTBEAT, 2, <<>>)

InitLoss ==
    /\ parser = NewParser(SeqBufSize)
    /\ dispatched = <<>>
    /\ sent \in LossCases
    /\ wire = LossWire(sent)
    /\ call = NoParserCall
    /\ oversized = FALSE
    /\ cb = NewCircularBuffer(BufSize)
    /\ last = NoCall
    /\ tag = 0
    /\ threads = NoThreads
    /\ receiver = NoReceiver

LossAdd ==
    /\ wire # <<>>
    /\ Deliver(Len(wire))

LossProcess ==
    /\ wire = <<>>
    /\ ProcessMessages

NextLoss == LossAdd \/ LossProcess

\* a further process_messages call would change nothing: ~ENABLED <<LossProcess>>_vars,
\* written out as a state predicate
LossQuiet ==
    \/ wire # <<>>
    \/ \E r \in {process_messages(parser, DefaultHandlers, dispatched, DefaultMaxMessages)} :
          /\ r.p = parser
          /\ r.handled = dispatched
          /\ call = [NoParserCall EXCEPT !.op = "process_messages", !.ret = r.ret,
                                        !.raised = r.raised]

\* the bytes do arrive, and the caller's loop goes on calling process_messages: weak
\* fairness of both actions, the second with LossQuiet for the enabling condition
SpecLoss ==
    /\ InitLoss /\ [][NextLoss]_vars
    /\ WF_vars(LossAdd)
    /\ ([]<>LossQuiet \/ []<><<LossProcess>>_vars)

\* C22: the intact heartbeat frame that lies in the buffer after a frame that lost
\* bytes is eventually dispatched by the repeated process_messages calls
C22_LaterFrameDispatched ==
    <>(\E i \in 1..Len(dispatched) :
          dispatched[i] = [msg_type |-> HEARTBEAT, sequence_id |-> 2, payload |-> <<>>])

(***************************************************************************)
(* The specification of a frame in which one byte of the message header    *)
(* (type, sequence id) within the payload was altered in transit: the      *)
(* frame arrives and parse_message is called.                              *)
(***************************************************************************)
\* the frame sent, the position of the altered byte in it (1-based, after the 4-byte
\* frame header) and the value received there
AlterCases ==
    {c \in [kind : FrameKinds, pos : (HEADER_SIZE + 1)..(HEADER_SIZE + MSG_HEADER_SIZE),
            value : 0..255] :
        Item(c.kind, 1)[c.pos] # c.value}

\* the bytes that arrive
AlteredFrame(c) == [Item(c.kind, 1) EXCEPT ![c.pos] = c.value]

InitAlter ==
    /\ parser = NewParser(ParserBufSize)
    /\ dispatched = <<>>
    /\ sent \in AlterCases
    /\ wire = AlteredFrame(sent)
    /\ call = NoParserCall
    /\ oversized = FALSE
    /\ cb = NewCircularBuffer(BufSize)
    /\ last = NoCall
    /\ tag = 0
    /\ threads = NoThreads
    /\ receiver = NoReceiver

AlterAdd ==
    /\ wire # <<>>
    /\ Deliver(Len(wire))

AlterParse ==
    /\ wire = <<>>
    /\ ParseMessage

NextAlter == AlterAdd \/ AlterParse

SpecAlter == InitAlter /\ [][NextAlter]_vars

\* C23: a message returned by parse_message carries the type and the sequence id the
\* sender put into the frame, so the frame with an altered message header is not returned
C23_AlteredHeaderNotDelivered ==
    (call.op = "parse_message" /\ call.msg # NoMessage) =>
        /\ call.msg.msg_type = KindType(sent.kind)
        /\ call.msg.sequence_id = 1

(***************************************************************************)
(* The specification of a candidate header that fails validation: 4 bytes  *)
(* that begin with 0xAA and have a wrong checksum or the payload length 0, *)
(* followed by frames or noise, arrive in chunks while parse_message and   *)
(* process_messages are called.                                            *)
(***************************************************************************)
\* the bytes before the followers: candidates with a wrong checksum, with the length 0
\* and the right or a wrong checksum, and a lone 0xAA, which makes a candidate with a
\* wrong checksum of the first bytes of the frame behind it
BadHeaders ==
    {<<SOF_BYTE, 3, 0, 0>>, <<SOF_BYTE, 3, 0, 168>>, <<SOF_BYTE, 7, 0, 85>>,
     <<SOF_BYTE, 0, 0, SOF_BYTE>>, <<SOF_BYTE, 0, 0, 0>>, <<SOF_BYTE>>}

\* what follows the candidate
BadHeaderFollowers ==
    {<<"hb">>, <<"det">>, <<"hb", "hb">>, <<"n55">>, <<"n55", "hb">>, <<"hdr">>,
     <<"badcrc", "hb">>, <<"unk">>}

InitBadHeader ==
    /\ parser = NewParser(SeqBufSize)
    /\ dispatched = <<>>
    /\ sent \in [header : BadHeaders, then : BadHeaderFollowers]
    /\ wire = sent.header \o Flatten(sent.then, 1)
    /\ call = NoParserCall
    /\ oversized = FALSE
    /\ cb = NewCircularBuffer(BufSize)
    /\ last = NoCall
    /\ tag = 0
    /\ threads = NoThreads
    /\ receiver = NoReceiver

SpecBadHeader == InitBadHeader /\ [][AddData \/ ProcessMessages \/ ParseMessage]_vars

\* u begins with 0xAA, holds at least 4 bytes, and its first 4 bytes fail validation
BadHeaderAtHead(u) ==
    /\ Len(u) >= HEADER_SIZE
    /\ u[1] = SOF_BYTE
    /\ ~validate_header_quickly(SubSeq(u, 1, HEADER_SIZE))

\* bytes occurs in u as a run of consecutive bytes
IsInfix(bytes, u) ==
    \E k \in 0..(Len(u) - Len(bytes)) : SubSeq(u, k + 1, k + Len(bytes)) = bytes

\* C24: parse_message on a buffer that begins with a failing candidate header consumes
\* that one byte and goes on scanning at the next: the call ends as it would with the scan
\* in its second round at the next byte, and every frame it consumes (message or CRC
\* failure) lies whole in the bytes after the first
C24_BadHeaderDropsOneByte ==
    [][(call'.op = "parse_message" /\ BadHeaderAtHead(Unread(parser.cb))) =>
          LET u == Unread(parser.cb)
              q == [parser EXCEPT !.cb = Consume(parser.cb, 1).b]
          IN  /\ Unread(q.cb) = SubSeq(u, 2, Len(u))
              /\ Returned = ParseAfterSync(parser, 0,
                                FindSyncLoop(q, 1, Min(SearchWindow, Available(parser.cb)),
                                             parser.stats.sync_errors))
              /\ Len(Unread(parser'.cb)) < Len(u)
              /\ \A i \in (Len(parser.log) + 1)..Len(parser'.log) :
                    LET e == parser'.log[i]
                    IN  IsInfix(Header(Len(e.payload)) \o e.payload \o e.crc,
                                SubSeq(u, 2, Len(u)))]_vars

\* C24 witness: parse_message met the candidate with all bytes buffered, dropped it and
\* returned the heartbeat frame behind it
C24_Witness ==
    /\ call.op = "parse_message" /\ call.msg = ItemMessage("hb", 1)
    /\ sent.then = <<"hb">> /\ sent.header = <<SOF_BYTE, 3, 0, 0>>
    /\ parser.stats.bytes_received = HEADER_SIZE + Len(Item("hb", 1))
    /\ Len(parser.log) = 1
    /\ Unread(parser.cb) = <<>>
\* C25: parse_message on a buffer that begins with 0xAA, a nonzero payload length and a
\* wrong header checksum adds at least 1 to checksum_errors
C25_ChecksumErrorCounted ==
    [][(/\ call'.op = "parse_message"
        /\ BadHeaderAtHead(Unread(parser.cb))
        /\ HeadSize(Unread(parser.cb)) # 0) =>
          parser'.stats.checksum_errors >= parser.stats.checksum_errors + 1]_vars
\* C26: more than 10 noise bytes without a start marker before a well-formed frame leave
\* sync_errors greater than before, by at most the number of noise bytes
C26_SyncErrorCounted ==
    (/\ wire = <<>> /\ call.op = "process_messages"
     /\ NoSOF(sent.before) /\ Len(sent.before) > SyncSkipLimit) =>
        /\ parser.stats.sync_errors >= 1
        /\ parser.stats.sync_errors <= Len(sent.before)
\* C27: one parse_message call consumes at most one complete frame, message or CRC
\* failure: crc_errors + messages_received grows by at most 1
C27_OneFramePerCall ==
    [][call'.op = "parse_message" =>
          /\ Len(parser'.log) <= Len(parser.log) + 1
          /\ parser'.stats.crc_errors + parser'.stats.messages_received
                 <= parser.stats.crc_errors + parser.stats.messages_received + 1]_vars

(***************************************************************************)
(* The specification of parsing with no new input: a prefix of the         *)
(* transmission arrives in one add_data call, the rest never, and          *)
(* parse_message is called again and again.                                *)
(***************************************************************************)
InitQuiesce == InitParser(SeqBufSize, Transmissions)

QuiesceAdd ==
    /\ call.op = "init"
    /\ \E n \in 1..Len(wire) : Deliver(n)

QuiesceParse ==
    /\ call.op # "init"
    /\ ParseMessage

NextQuiesce == QuiesceAdd \/ QuiesceParse

\* a further parse_message call would change nothing: ~ENABLED <<QuiesceParse>>_vars,
\* written out as a state predicate
QuiesceQuiet ==
    \/ call.op = "init"
    \/ \E r \in {parse_message(parser)} :
          /\ r.p = parser
          /\ call = [NoParserCall EXCEPT !.op = "parse_message", !.msg = r.ret,
                                        !.raised = r.raised]

\* the prefix does arrive, and the caller goes on calling parse_message: weak fairness
\* of both actions, the second with QuiesceQuiet for the enabling condition
SpecQuiesce ==
    /\ InitQuiesce /\ [][NextQuiesce]_vars
    /\ WF_vars(QuiesceAdd)
    /\ ([]<>QuiesceQuiet \/ []<><<QuiesceParse>>_vars)

\* u begins with a valid header whose frame is not buffered whole
WaitingAtHead(u) ==
    /\ Len(u) >= HEADER_SIZE
    /\ validate_header_quickly(SubSeq(u, 1, HEADER_SIZE))
    /\ Len(u) < HEADER_SIZE + HeadSize(u) + CRC_SIZE

\* the buffer is empty or begins with the valid header of an incomplete frame
Settled == Unread(parser.cb) = <<>> \/ WaitingAtHead(Unread(parser.cb))

\* C28: a parse_message call that returns no message on a buffer that is not empty and
\* does not begin with the valid header of an incomplete frame consumes at least one byte;
\* the repeated calls reach a state with the buffer empty or beginning with such a header,
\* and calls in such a state change nothing
C28_ProgressToSettled ==
    /\ [][(/\ call'.op = "parse_message" /\ call'.msg = NoMessage /\ ~call'.raised
           /\ ~Settled) =>
             Len(Unread(parser'.cb)) < Len(Unread(parser.cb))]_vars
    /\ [][(call'.op = "parse_message" /\ Settled) =>
             /\ parser' = parser
             /\ call'.msg = NoMessage /\ ~call'.raised]_vars
    /\ <>[]Settled

\* C28 witness: a call consumed noise and stopped at the valid header of a frame whose
\* last bytes have not arrived
C28_Witness ==
    /\ call.op = "parse_message" /\ call.msg = NoMessage
    /\ sent = <<"n55", "hb">>
    /\ WaitingAtHead(Unread(parser.cb))
    /\ Len(Unread(parser.cb)) < parser.stats.bytes_received

(***************************************************************************)
(* The specification of process_messages step by step: a prefix of the     *)
(* transmission arrives, process_messages is called, and every round of    *)
(* its loop calls parse_message, which runs in the steps of the two-thread *)
(* specification (one find_sync call per attempt).  threads.loop holds     *)
(* the local variables of process_messages and the number of parse_message *)
(* calls it has made.                                                      *)
(***************************************************************************)
\* the values of max_messages: one round, and more rounds than the failure limit allows
LoopMaxMessages == {1, MaxConsecutiveFailures + 2}

\* noise longer than the search window of find_sync, which may come before the
\* transmission
LoopNoise == Run(85, SearchWindow + 2)

InitLoop ==
    /\ parser = NewParser(SeqBufSize)
    /\ dispatched = <<>>
    /\ sent \in Transmissions
    /\ wire \in {Flatten(sent, 1), LoopNoise \o Flatten(sent, 1)}
    /\ call = NoParserCall
    /\ oversized = FALSE
    /\ cb = NewCircularBuffer(BufSize)
    /\ last = NoCall
    /\ tag = 0
    /\ threads = RaceIdle
    /\ receiver = NoReceiver

\* add_data with a prefix of the transmission; the rest never arrives
LoopAdd ==
    /\ call.op = "init"
    /\ \E n \in 1..Len(wire) : Deliver(n)

\* process_messages(max_messages) is called
LoopCall ==
    /\ call.op # "init" /\ threads.loop.pc = "idle"
    /\ \E max_messages \in LoopMaxMessages :
          threads' = [RaceIdle EXCEPT !.loop = [NoLoop EXCEPT !.pc = "for",
                                                             !.max_messages = max_messages]]
    /\ UNCHANGED <<parser, call, dispatched, wire, sent, oversized, cb, last, tag, receiver>>

\* a round of `for _ in range(max_messages)` begins: message = self.parse_message()
LoopParse ==
    /\ threads.loop.pc = "for"
    /\ threads' = [RaceIdle EXCEPT !.pc = "find_sync",
                                   !.loop = [threads.loop EXCEPT !.pc = "parsing",
                                                                 !.calls = @ + 1]]
    /\ UNCHANGED <<parser, call, dispatched, wire, sent, oversized, cb, last, tag, receiver>>

\* process_messages ends: return processed, or the exception of parse_message
LoopReturn(l, handled, raised) ==
    /\ threads' = [threads EXCEPT !.loop = [l EXCEPT !.pc = "idle"]]
    /\ dispatched' = handled
    /\ call' = [NoParserCall EXCEPT !.op = "process_messages", !.ret = l.processed,
                                    !.raised = raised]

\* the loop goes on to its next round, or ends when range(max_messages) is used up
LoopNext(l, handled) ==
    IF l.calls = l.max_messages
    THEN LoopReturn(l, handled, FALSE)
    ELSE /\ threads' = [threads EXCEPT !.loop = [l EXCEPT !.pc = "for"]]
         /\ dispatched' = handled
         /\ UNCHANGED call

\* the rest of the round after parse_message returned: the handler, the failure count
LoopHandle ==
    /\ threads.loop.pc = "parsing" /\ threads.pc = "idle"
    /\ LET l == threads.loop
       IN  IF call.raised THEN LoopReturn(l, dispatched, TRUE)
           ELSE IF call.msg = NoMessage
           THEN IF l.consecutive_failures + 1 > MaxConsecutiveFailures
                THEN LoopReturn([l EXCEPT !.consecutive_failures = @ + 1], dispatched, FALSE)
                ELSE LoopNext([l EXCEPT !.consecutive_failures = @ + 1], dispatched)
           ELSE IF call.msg.msg_type \in DefaultHandlers
           THEN LoopNext([l EXCEPT !.consecutive_failures = 0, !.processed = @ + 1],
                         Append(dispatched, call.msg))
           ELSE LoopNext([l EXCEPT !.consecutive_failures = 0], dispatched)
    /\ UNCHANGED <<parser, wire, sent, oversized, cb, last, tag, receiver>>

\* a step of parse_message
LoopParseStep ==
    /\ threads.loop.pc = "parsing"
    /\ \/ RaceFindSync \/ RaceParseHeader \/ RaceDropSof
       \/ RaceAvailable \/ RaceConsumeHeader \/ RaceConsumeBody

NextLoop == LoopAdd \/ LoopCall \/ LoopParse \/ LoopParseStep \/ LoopHandle

\* the bytes arrive, and a process_messages call under way takes its next step; every
\* step of the call changes the state, so it is enabled exactly while threads.loop.pc
\* is not "idle"
SpecLoop ==
    /\ InitLoop /\ [][NextLoop]_vars
    /\ WF_vars(LoopAdd)
    /\ ([]<>(threads.loop.pc = "idle")
           \/ []<><<LoopParse \/ LoopParseStep \/ LoopHandle>>_vars)

\* C29: process_messages(max_messages) ends after at most max_messages parse_message
\* calls, and does not go on after 6 consecutive calls that returned no message; a
\* parse_message call makes at most 3 sync attempts; a find_sync call consumes at most
\* min(search window, available) bytes
C29_BoundedWork ==
    /\ [](/\ threads.loop.calls <= threads.loop.max_messages
          /\ threads.loop.pc = "for" =>
                threads.loop.consecutive_failures <= MaxConsecutiveFailures
          /\ threads.attempt + 1 <= max_attempts)
    /\ [][threads.pc = "find_sync" =>
             Len(Unread(parser.cb)) - Len(Unread(parser'.cb))
                 <= Min(SearchWindow, Available(parser.cb))]_vars
    /\ [](threads.loop.pc # "idle" => <>(threads.loop.pc = "idle"))

\* C29 witness: a call with max_messages 7 ended after 6 parse_message calls that
\* returned no message, the first of which consumed a frame with a wrong CRC
C29_Witness ==
    /\ call.op = "process_messages" /\ threads.loop.pc = "idle"
    /\ threads.loop.max_messages = MaxConsecutiveFailures + 2
    /\ threads.loop.calls = MaxConsecutiveFailures + 1
    /\ threads.loop.consecutive_failures = MaxConsecutiveFailures + 1
    /\ sent = <<"badcrc", "hb">> /\ wire # <<>>
    /\ parser.stats.crc_errors = 1 /\ Unread(parser.cb) = <<>>

(***************************************************************************)
(* The specification of the sequence tracking of both receivers: the       *)
(* messages of a transmission reach the RobustProtocolParser as frames     *)
(* through add_data and parse_message, and the EnhancedProtocolReceiver    *)
(* of pc_side_crc_protocol.py through read_message, one frame per call.    *)
(* The frame read_message takes off the serial line passes its header and  *)
(* CRC32 checks or fails one of them.                                      *)
(***************************************************************************)
\* what read_message finds of a frame
ReadOutcomes == {"header_error", "crc_error", "ok"}

\* EnhancedProtocolReceiver.read_message for the frame of message m with body length n
read_message(r, message_type, sequence_id, n, outcome) ==
    LET read == [r EXCEPT !.next = @ + 1, !.returned = FALSE, !.mismatch = FALSE]
        counters == IF message_type \in DOMAIN r.sequence_counters
                    THEN r.sequence_counters
                    ELSE [t \in DOMAIN r.sequence_counters \cup {message_type} |->
                             IF t = message_type THEN 0 ELSE r.sequence_counters[t]]
        expected_seq == counters[message_type] + 1
    IN  CASE outcome = "header_error" -> [read EXCEPT !.stats.header_errors = @ + 1]
          [] outcome = "crc_error" -> [read EXCEPT !.stats.crc_errors = @ + 1]
          [] outcome = "ok" ->
               [read EXCEPT
                  !.stats.packets_received = @ + 1,
                  !.stats.packets_valid = @ + 1,
                  !.stats.bytes_received = @ + HEADER_SIZE + MSG_HEADER_SIZE + n + CRC_SIZE,
                  !.mismatch = (sequence_id # expected_seq),
                  !.sequence_counters = [counters EXCEPT ![message_type] = sequence_id],
                  !.returned = TRUE]

\* the EnhancedProtocolReceiver reads the next frame of the transmission
WrapRead ==
    /\ receiver.next < Len(sent)
    /\ \E outcome \in ReadOutcomes :
          LET m == sent[receiver.next + 1]
          IN  receiver' = read_message(receiver, KindType(m.kind), m.seq,
                                       Len(KindBody(m.kind)), outcome)
    /\ UNCHANGED <<cb, last, tag, threads, oversized, parserVars>>

NextWrap == SeqAdd \/ SeqParse \/ WrapRead

SpecWrap == InitSeq /\ [][NextWrap]_vars

\* C30: a message with sequence id 0 after a message of its type with sequence id 65535
\* is in order: the RobustProtocolParser adds nothing to messages_dropped for it, and
\* read_message of the EnhancedProtocolReceiver reports no sequence mismatch for it
C30_WrapInOrder ==
    [][/\ (/\ call'.op = "parse_message" /\ call'.msg # NoMessage
           /\ call'.msg.sequence_id = 0
           /\ LastSeqGet(parser, call'.msg.msg_type, 0) = 65535) =>
              parser'.stats.messages_dropped = parser.stats.messages_dropped
       /\ (/\ receiver'.next = receiver.next + 1 /\ receiver'.returned
           /\ sent[receiver'.next].seq = 0
           /\ KindType(sent[receiver'.next].kind) \in DOMAIN receiver.sequence_counters
           /\ receiver.sequence_counters[KindType(sent[receiver'.next].kind)] = 65535) =>
              ~receiver'.mismatch]_vars

\* the part of C30 that the code meets: the RobustProtocolParser adds nothing to
\* messages_dropped
C30_ParserWrapInOrder ==
    [][(/\ call'.op = "parse_message" /\ call'.msg # NoMessage
        /\ call'.msg.sequence_id = 0
        /\ LastSeqGet(parser, call'.msg.msg_type, 0) = 65535) =>
           parser'.stats.messages_dropped = parser.stats.messages_dropped]_vars


(***************************************************************************)
(* The specification of detection parsing: parse_detections is applied to  *)
(* a DETECTION_RESULTS payload cut off at any length.  Here sent is the    *)
(* payload and last the call made on it.                                   *)
(***************************************************************************)
RECURSIVE KeypointBytes(_)
\* k keypoints of two floats each
KeypointBytes(k) == IF k = 0 THEN <<>> ELSE Float05 \o Float02 \o KeypointBytes(k - 1)

\* a detection of class i with k keypoints, as the firmware packs it
DetectionWithKeypoints(i, k) ==
    PackU32(<<0, i>>) \o Float05 \o Float05 \o Float02 \o Float03 \o Float085
        \o PackU32(<<0, k>>) \o KeypointBytes(k)

\* the detection counts declared: none, some, the largest accepted, the first rejected and
\* one whose low 16 bits are zero
DeclaredCounts == {<<0, 0>>, <<0, 1>>, <<0, 2>>, <<0, 100>>, <<0, 101>>, <<1, 0>>}

DeclaredKeypoints == {0, 1, 2}

\* payloads declaring a count, holding two detections, and cut off at any length; and a
\* payload of one detection that declares 2^32 - 1 keypoints
DetectionPayloads ==
    LET whole == {PackU32(<<0, 7>>) \o PackU32(c) \o DetectionWithKeypoints(0, k[1])
                      \o DetectionWithKeypoints(1, k[2]) :
                  c \in DeclaredCounts, k \in [1..2 -> DeclaredKeypoints]}
                 \cup {PackU32(<<0, 7>>) \o PackU32(<<0, 1>>)
                          \o SubSeq(DetectionWithKeypoints(0, 0), 1, DetectionSizeNoCount)
                          \o PackU32(<<65535, 65535>>) \o Float05 \o Float05}
    IN  UNION {{SubSeq(w, 1, n) : n \in 0..Len(w)} : w \in whole}

InitDetections ==
    /\ sent \in DetectionPayloads
    /\ last = NoCall
    /\ parser = NewParser(ParserBufSize)
    /\ dispatched = <<>>
    /\ wire = <<>>
    /\ call = NoParserCall
    /\ oversized = FALSE
    /\ cb = NewCircularBuffer(BufSize)
    /\ tag = 0
    /\ threads = NoThreads
    /\ receiver = NoReceiver

DetectionsParse ==
    /\ last.op = "init"
    /\ last' = [NoCall EXCEPT !.op = "parse_detections", !.data = sent,
                              !.ret = parse_detections(sent)]
    /\ UNCHANGED <<sent, cb, tag, threads, receiver, oversized, parser, dispatched, wire, call>>

NextDetections == DetectionsParse

SpecDetections == InitDetections /\ [][NextDetections]_vars

RECURSIVE HoldsDeclared(_, _, _)
\* the payload holds, from the offset, `left` detections each with its declared keypoints
HoldsDeclared(payload, left, offset) ==
    \/ left = 0
    \/ /\ offset + DetectionSize <= Len(payload)
       /\ LET kp_count == UnpackU32(Slice(payload, offset + DetectionSize - 4,
                                          offset + DetectionSize))
              after == offset + DetectionSize
          IN  /\ kp_count[1] = 0
              /\ after + kp_count[2] * KeypointSize <= Len(payload)
              /\ HoldsDeclared(payload, left - 1, after + kp_count[2] * KeypointSize)

\* the detection count the payload declares
DeclaredCount(payload) == UnpackU32(Slice(payload, 4, 8))

\* the payload declares more than 100 detections or is too short for what it declares
Implausible(payload) ==
    \/ Len(payload) < 8
    \/ DeclaredCount(payload)[1] > 0
    \/ DeclaredCount(payload)[2] > 100
    \/ ~HoldsDeclared(payload, DeclaredCount(payload)[2], 8)

\* C31: parse_detections returns None when the declared detection count exceeds 100 or
\* the payload is too short for the declared detections with their declared keypoints,
\* and a result it returns has as many detections as declared
C31_ImplausibleRejected ==
    last.op = "parse_detections" =>
        /\ Implausible(sent) => last.ret = NoDetections
        /\ last.ret # NoDetections =>
              Len(last.ret.detections) = DeclaredCount(sent)[2]

\* the part of C31 that the code meets: a declared count above 100 is rejected
C31_CountAbove100Rejected ==
    (/\ last.op = "parse_detections" /\ Len(sent) >= 8
     /\ (DeclaredCount(sent)[1] > 0 \/ DeclaredCount(sent)[2] > 100)) =>
        last.ret = NoDetections


(***************************************************************************)
(* FrameDataParser.parse_frame, applied to a FRAME_DATA payload.  The tag  *)
(* is kept as its bytes; the image of a result is the image data, whose    *)
(* conversion to three channels changes no size.  Here sent is the payload *)
(* and last the call made on it.                                           *)
(***************************************************************************)
\* the bytes of b'JPG\x00', b'RAW\x00', b'ALN\x00' and of a tag that is not ASCII
TagJpg == <<74, 80, 71, 0>>
TagRaw == <<82, 65, 87, 0>>
TagAln == <<65, 76, 78, 0>>
TagNotAscii == <<74, 80, 200, 0>>

RECURSIVE RStripNul(_)
\* frame_type.rstrip('\x00')
RStripNul(t) ==
    IF t # <<>> /\ t[Len(t)] = 0 THEN RStripNul(SubSeq(t, 1, Len(t) - 1)) ELSE t

\* len(image_data) == width * height, for 32-bit width and height and an image of fewer
\* than 65536 bytes
SizeMatches(n, width, height) ==
    IF width = <<0, 0>> \/ height = <<0, 0>> THEN n = 0
    ELSE /\ width[1] = 0 /\ height[1] = 0
         /\ width[2] <= n /\ height[2] <= n
         /\ width[2] * height[2] = n

\* the None that parse_frame returns in place of (frame_type, frame, width, height)
NoFrame == [frame_type |-> <<>>, frame |-> <<>>, width |-> <<>>, height |-> <<>>]

\* FrameDataParser.parse_frame: the decode of a tag that is not ASCII and the colour
\* conversion of an image of no pixels raise, and the except branch returns None
parse_frame(payload) ==
    IF Len(payload) < 12 THEN NoFrame
    ELSE LET tag_bytes == Slice(payload, 0, 4)
             width == UnpackU32(Slice(payload, 4, 8))
             height == UnpackU32(Slice(payload, 8, 12))
             image_data == Slice(payload, 12, Len(payload))
         IN  IF \E i \in 1..4 : tag_bytes[i] > 127 THEN NoFrame
             ELSE IF SizeMatches(Len(image_data), width, height)
                  THEN IF image_data = <<>> THEN NoFrame
                       ELSE [frame_type |-> RStripNul(tag_bytes), frame |-> image_data,
                             width |-> width, height |-> height]
                  ELSE NoFrame

\* image bytes that are a JPEG encoding (start of image, data, end of image) of n bytes
JpegBytes(n) == <<255, 216>> \o Run(1, n - 4) \o <<255, 217>>

IsJpeg(image) ==
    /\ Len(image) >= 4
    /\ SubSeq(image, 1, 2) = <<255, 216>>
    /\ SubSeq(image, Len(image) - 1, Len(image)) = <<255, 217>>

FrameSides == {<<0, 0>>, <<0, 1>>, <<0, 2>>, <<0, 3>>, <<1, 0>>}

FrameImages == {Run(9, n) : n \in 0..9} \cup {JpegBytes(n) : n \in 4..9}

\* create_test_frame_data: tag, width, height and image data, and payloads cut off
\* inside the 12-byte header
FramePayloads ==
    LET whole == {t \o PackU32(w) \o PackU32(h) \o image :
                  t \in {TagJpg, TagRaw, TagAln, TagNotAscii}, w \in FrameSides,
                  h \in FrameSides, image \in FrameImages}
    IN  whole \cup {SubSeq(TagJpg \o PackU32(<<0, 2>>) \o PackU32(<<0, 2>>), 1, n) :
                    n \in 0..11}

InitFrame ==
    /\ sent \in FramePayloads
    /\ last = NoCall
    /\ parser = NewParser(ParserBufSize)
    /\ dispatched = <<>>
    /\ wire = <<>>
    /\ call = NoParserCall
    /\ oversized = FALSE
    /\ cb = NewCircularBuffer(BufSize)
    /\ tag = 0
    /\ threads = NoThreads
    /\ receiver = NoReceiver

FrameParse ==
    /\ last.op = "init"
    /\ last' = [NoCall EXCEPT !.op = "parse_frame", !.data = sent, !.ret = parse_frame(sent)]
    /\ UNCHANGED <<sent, cb, tag, threads, receiver, oversized, parser, dispatched, wire, call>>

NextFrame == FrameParse

SpecFrame == InitFrame /\ [][NextFrame]_vars

\* C32: for a FRAME_DATA body tagged 'JPG' whose image bytes are a JPEG encoding, of a
\* length that differs from width*height, parse_frame returns a result that carries the
\* tag, the width and the height of the header
C32_JpegFrameParsed ==
    (/\ last.op = "parse_frame" /\ Len(sent) >= 12
     /\ Slice(sent, 0, 4) = TagJpg
     /\ IsJpeg(Slice(sent, 12, Len(sent)))
     /\ ~SizeMatches(Len(sent) - 12, UnpackU32(Slice(sent, 4, 8)),
                     UnpackU32(Slice(sent, 8, 12)))) =>
        /\ last.ret # NoFrame
        /\ last.ret.frame_type = RStripNul(TagJpg)
        /\ last.ret.width = UnpackU32(Slice(sent, 4, 8))
        /\ last.ret.height = UnpackU32(Slice(sent, 8, 12))

\* what the code does for such a body: it returns None; a result is returned for the
\* bodies whose image data is width*height bytes, whatever the tag
C32_OnlyRawSizeParsed ==
    (last.op = "parse_frame" /\ last.ret # NoFrame) =>
        /\ SizeMatches(Len(last.ret.frame), last.ret.width, last.ret.height)
        /\ last.ret.frame = Slice(sent, 12, Len(sent))


(***************************************************************************)
(* EmbeddingDataParser.parse_embedding.  A Python float that came out of   *)
(* struct.unpack('<f') is a single-precision number: its sign, its 8-bit   *)
(* exponent field and its 23-bit fraction field.  struct.pack('<f') of the *)
(* test vector rounds the number num/den to the nearest such number, ties  *)
(* to even.  Here sent is the payload and last the call made on it.        *)
(***************************************************************************)
\* the largest embedding size parse_embedding accepts
MaxEmbeddingSize == 1024

\* struct.unpack('<f', b)[0] for a number that is not a NaN, with the width of fraction
\* kept
UnpackFloatBits(b, fraction_bits) ==
    LET fraction == (b[3] % 128) * 65536 + b[2] * 256 + b[1]
        dropped == 2 ^ (23 - fraction_bits)
    IN  [sign |-> b[4] \div 128,
         exponent |-> (b[4] % 128) * 2 + b[3] \div 128,
         fraction |-> (fraction \div dropped) * dropped]

\* a decoder that keeps the 10 fraction bits of a half-precision number
UnpackFloatHalf(b) == UnpackFloatBits(b, 10)

\* struct.unpack('<f', b)[0]
UnpackFloat(b) == UnpackFloatBits(b, 23)

\* struct.pack('<f', x) for a single-precision number x
PackFloat(x) ==
    <<x.fraction % 256, (x.fraction \div 256) % 256,
      (x.exponent % 2) * 128 + x.fraction \div 65536, x.sign * 128 + x.exponent \div 2>>

RECURSIVE BinaryExponent(_, _, _)
\* the e with 2^e <= num/den < 2^(e+1), searched from e, for num/den > 0
BinaryExponent(num, den, e) ==
    IF e >= 0
    THEN IF 2 ^ (e + 1) * den <= num THEN BinaryExponent(num, den, e + 1)
         ELSE IF 2 ^ e * den <= num THEN e
         ELSE BinaryExponent(num, den, e - 1)
    ELSE IF num * 2 ^ (0 - e) >= den THEN e ELSE BinaryExponent(num, den, e - 1)

\* struct.pack('<f', num / den) for a number num/den >= 0 in the normal range
PackRational(num, den) ==
    IF num = 0 THEN <<0, 0, 0, 0>>
    ELSE LET e == BinaryExponent(num, den, 0)
             scaled == num * 2 ^ (23 - e)
             q == scaled \div den
             rem == scaled % den
             up == 2 * rem > den \/ (2 * rem = den /\ q % 2 = 1)
             m == IF up THEN q + 1 ELSE q
             carry == m = 2 ^ 24
         IN  PackFloat([sign |-> 0,
                        exponent |-> (IF carry THEN e + 1 ELSE e) + 127,
                        fraction |-> IF carry THEN 0 ELSE m - 2 ^ 23])

\* struct.unpack(f'<{n}f', data) for data of 4n bytes
UnpackEmbedding(data) ==
    [i \in 1..(Len(data) \div 4) |-> UnpackFloat(SubSeq(data, 4 * i - 3, 4 * i))]

\* the None that parse_embedding returns in place of the list
NoEmbedding == <<[sign |-> -1, exponent |-> -1, fraction |-> -1]>>

\* EmbeddingDataParser.parse_embedding: the list of floats, or NoEmbedding
parse_embedding(payload) ==
    IF Len(payload) < 4 THEN NoEmbedding
    ELSE LET embedding_size == UnpackU32(Slice(payload, 0, 4))
         IN  IF embedding_size[1] > 0 \/ embedding_size[2] > MaxEmbeddingSize THEN NoEmbedding
             ELSE LET expected_bytes == embedding_size[2] * 4
                  IN  IF Len(payload) < 4 + expected_bytes THEN NoEmbedding
                      ELSE UnpackEmbedding(Slice(payload, 4, 4 + expected_bytes))

\* struct.pack(f'<{n}f', *[i / den for i in from..n-1])
PackRationals(from, n, den) ==
    [k \in 1..(4 * (n - from)) |-> PackRational(from + ((k - 1) \div 4), den)[((k - 1) % 4) + 1]]

\* create_test_embedding_data: the size 32 and the floats 0.1 * i for i in 0..31
TestEmbeddingSize == 32
TestEmbeddingPayload ==
    PackU32(<<0, TestEmbeddingSize>>) \o PackRationals(0, TestEmbeddingSize, 10)

\* the sizes declared: none, some, the test's, the largest accepted, the first rejected,
\* one whose low 16 bits are zero and the largest 32-bit one
EmbeddingSizes ==
    {<<0, 0>>, <<0, 1>>, <<0, 2>>, <<0, TestEmbeddingSize>>, <<0, MaxEmbeddingSize>>,
     <<0, MaxEmbeddingSize + 1>>, <<1, 0>>, <<65535, 65535>>}

\* the test payload cut off at any length or with bytes after it, and payloads declaring
\* a size that hold the floats of that size, one byte less and one float more
EmbeddingPayloads ==
    {SubSeq(TestEmbeddingPayload, 1, n) : n \in 0..Len(TestEmbeddingPayload)}
      \cup {TestEmbeddingPayload \o Run(9, n) : n \in 1..5}
      \cup UNION {LET floats == PackRationals(0, Min(size[2], MaxEmbeddingSize + 1), 8)
                      whole == PackU32(size) \o floats
                  IN  {whole, SubSeq(whole, 1, Len(whole) - 1), whole \o Float085} :
                  size \in EmbeddingSizes}

InitEmbedding ==
    /\ sent \in EmbeddingPayloads
    /\ last = NoCall
    /\ parser = NewParser(ParserBufSize)
    /\ dispatched = <<>>
    /\ wire = <<>>
    /\ call = NoParserCall
    /\ oversized = FALSE
    /\ cb = NewCircularBuffer(BufSize)
    /\ tag = 0
    /\ threads = NoThreads
    /\ receiver = NoReceiver

EmbeddingParse ==
    /\ last.op = "init"
    /\ last' = [NoCall EXCEPT !.op = "parse_embedding", !.data = sent,
                              !.ret = parse_embedding(sent)]
    /\ UNCHANGED <<sent, cb, tag, threads, receiver, oversized, parser, dispatched, wire, call>>

NextEmbedding == EmbeddingParse

SpecEmbedding == InitEmbedding /\ [][NextEmbedding]_vars

\* the payload declares at most 1024 floats and holds them
HoldsEmbedding(payload) ==
    /\ Len(payload) >= 4
    /\ UnpackU32(Slice(payload, 0, 4))[1] = 0
    /\ UnpackU32(Slice(payload, 0, 4))[2] <= 1024
    /\ Len(payload) >= 4 + 4 * UnpackU32(Slice(payload, 0, 4))[2]

\* C33: parse_embedding returns None unless embedding_size <= 1024 and the payload holds
\* 4 + 4 * embedding_size bytes, and then a list of embedding_size elements whose element
\* i has the 4-byte encoding of payload bytes 4+4i..4+4i+3; the test vector of 32 floats
\* 0.1 * i, encoded and decoded, gives 32 elements with the encodings of the 0.1 * i
C33_EmbeddingDecoded ==
    last.op = "parse_embedding" =>
        /\ ~HoldsEmbedding(sent) => last.ret = NoEmbedding
        /\ HoldsEmbedding(sent) =>
              /\ last.ret # NoEmbedding
              /\ Len(last.ret) = UnpackU32(Slice(sent, 0, 4))[2]
              /\ \A i \in 0..(Len(last.ret) - 1) :
                    PackFloat(last.ret[i + 1]) = SubSeq(sent, 5 + 4 * i, 8 + 4 * i)
        /\ sent = TestEmbeddingPayload =>
              /\ Len(last.ret) = 32
              /\ \A i \in 0..31 : PackFloat(last.ret[i + 1]) = PackRational(i, 10)

\* C33 witness: the test vector was decoded, and its element 10 is the float 1.0
C33_Witness ==
    /\ last.op = "parse_embedding" /\ sent = TestEmbeddingPayload
    /\ Len(last.ret) = 32
    /\ last.ret[11] = [sign |-> 0, exponent |-> 127, fraction |-> 0]
    /\ last.ret[2] = [sign |-> 0, exponent |-> 123, fraction |-> 5033165]


(***************************************************************************)
(* The specification of stopping the reader thread: RobustSerialReader.run *)
(* as its steps, with stop() called by the thread of the user interface at *)
(* any moment after start(), while the bytes of the transmission arrive at *)
(* the serial port.  Here wire holds the bytes that have not arrived and   *)
(* threads the reader: its position pc, the flag _running, the bytes       *)
(* waiting on the port, and what stop() found: the position of run, the    *)
(* number of bytes that had arrived and of messages dispatched.            *)
(***************************************************************************)
\* the reader thread after start(), before run() has executed a statement
ReaderStarted ==
    [pc |-> "run", _running |-> FALSE, port |-> <<>>, stopped |-> FALSE, stop_pc |-> "none",
     arrived_at_stop |-> 0, dispatched_at_stop |-> 0, passed_after_stop |-> FALSE]

\* well-formed frames of the types RobustSerialReader registers handlers for
StopTransmissions == {<<"hb">>, <<"det">>, <<"hb", "hb">>}

InitStop ==
    /\ parser = NewParser(SeqBufSize)
    /\ dispatched = <<>>
    /\ sent \in StopTransmissions
    /\ wire = Flatten(sent, 1)
    /\ call = NoParserCall
    /\ oversized = FALSE
    /\ cb = NewCircularBuffer(BufSize)
    /\ last = NoCall
    /\ tag = 0
    /\ threads = ReaderStarted
    /\ receiver = NoReceiver

\* the next bytes of the transmission arrive at the serial port
PortArrive ==
    /\ wire # <<>>
    /\ \E n \in {1, MaxChunk, Len(wire)} :
          /\ n >= 1 /\ n <= Len(wire)
          /\ threads' = [threads EXCEPT !.port = @ \o SubSeq(wire, 1, n)]
          /\ wire' = SubSeq(wire, n + 1, Len(wire))
    /\ UNCHANGED <<parser, dispatched, sent, call, oversized, cb, last, tag, receiver>>

\* run: self._running = True
RunBegin ==
    /\ threads.pc = "run"
    /\ threads' = [threads EXCEPT !.pc = "while", !._running = TRUE]
    /\ UNCHANGED <<parserVars, oversized, cb, last, tag, receiver>>

\* run: the test of the while loop; the port stays open until stop() has returned
RunWhile ==
    /\ threads.pc = "while"
    /\ threads' = [threads EXCEPT
                      !.pc = IF threads._running THEN "read" ELSE "stopped",
                      !.passed_after_stop = @ \/ (threads.stopped /\ threads._running)]
    /\ UNCHANGED <<parserVars, oversized, cb, last, tag, receiver>>

\* run: the bytes waiting on the port are read and given to add_data
RunRead ==
    /\ threads.pc = "read"
    /\ LET data == threads.port
       IN  /\ parser' = IF data # <<>> THEN add_data(parser, data).p ELSE parser
           /\ oversized' = (oversized \/ Len(data) > parser.cb.size)
    /\ threads' = [threads EXCEPT !.pc = "process", !.port = <<>>]
    /\ UNCHANGED <<dispatched, wire, sent, call, cb, last, tag, receiver>>

\* run: process_messages(max_messages=100); an exception is caught by the loop, which
\* goes on with its next iteration
RunProcess ==
    /\ threads.pc = "process"
    /\ \E r \in {process_messages(parser, DefaultHandlers, dispatched, ReaderMaxMessages)} :
          /\ parser' = r.p
          /\ dispatched' = r.handled
          /\ call' = [NoParserCall EXCEPT !.op = "run", !.ret = r.ret, !.raised = r.raised]
    /\ threads' = [threads EXCEPT !.pc = "while"]
    /\ UNCHANGED <<wire, sent, oversized, cb, last, tag, receiver>>

\* the bytes of the transmission that have arrived at the port
Arrived == Len(Flatten(sent, 1)) - Len(wire)

\* stop: self._running = False
StopCall ==
    /\ ~threads.stopped
    /\ threads' = [threads EXCEPT !._running = FALSE, !.stopped = TRUE, !.stop_pc = threads.pc,
                                  !.arrived_at_stop = Arrived,
                                  !.dispatched_at_stop = Len(dispatched)]
    /\ UNCHANGED <<parserVars, oversized, cb, last, tag, receiver>>

\* stop: the wait of 3 seconds ran out with run still in its loop, and terminate() ends
\* the thread where it is
StopTerminate ==
    /\ threads.stopped
    /\ threads.pc \notin {"stopped", "terminated"}
    /\ threads' = [threads EXCEPT !.pc = "terminated"]
    /\ UNCHANGED <<parserVars, oversized, cb, last, tag, receiver>>

NextStop ==
    PortArrive \/ RunBegin \/ RunWhile \/ RunRead \/ RunProcess \/ StopCall \/ StopTerminate

SpecStop == InitStop /\ [][NextStop]_vars

\* the frame at position j of the transmission had arrived whole when stop() was called
ArrivedBeforeStop(j) ==
    Len(Flatten(sent, 1)) - Len(Flatten(sent, j + 1)) <= threads.arrived_at_stop

\* C34: once stop() has set _running to False the loop of run begins no further
\* iteration, and no message is dispatched afterwards for a frame whose bytes had not
\* all arrived before the stop
C34_StopEndsLoop ==
    threads.stopped =>
        /\ ~threads.passed_after_stop
        /\ \A i \in (threads.dispatched_at_stop + 1)..Len(dispatched) :
              \E j \in 1..Len(sent) :
                 /\ dispatched[i] = ItemMessage(sent[j], j)
                 /\ ArrivedBeforeStop(j)

\* what holds of C34: when stop() is called after run has set _running to True, the loop
\* begins no further iteration
C34_StopInsideLoopEndsLoop ==
    (threads.stopped /\ threads.stop_pc # "run") => ~threads.passed_after_stop

\* C34 for the stop that finds run before its first statement: whether the loop then
\* begins no iteration
C34_StopBeforeRunEndsLoop ==
    (threads.stopped /\ threads.stop_pc = "run") => ~threads.passed_after_stop


(***************************************************************************)
(* SerialProtocolParser of serial_protocol.py.  Its CircularBuffer, its    *)
(* add_data, _validate_header_quickly, parse_header and its CRC32 are the  *)
(* code of robust_protocol.py line for line and are the definitions above; *)
(* find_sync, parse_message and process_messages, which call find_sync,    *)
(* and the constructor, which registers no handler, are its own.           *)
(***************************************************************************)
\* SerialProtocolParser.__init__
NewSerialParser(buffer_size) ==
    [cb |-> NewCircularBuffer(buffer_size), stats |-> NewStats,
     last_sequence_id |-> <<>>, log |-> <<>>]

\* an end of find_sync that counts every scan that ran out
SerialFindSyncEndAlways(p, max_search) ==
    [p |-> IF max_search > 0 THEN Count(p, "sync_errors", 1) ELSE p, ret |-> FALSE]

\* the end of SerialProtocolParser.find_sync, after the scan loop ran out
SerialFindSyncEnd(p, max_search) ==
    [p |-> IF max_search > SyncSkipLimit THEN Count(p, "sync_errors", 1) ELSE p,
     ret |-> FALSE]

RECURSIVE SerialFindSyncLoop(_, _, _)
\* the scan loop of SerialProtocolParser.find_sync from iteration i on
SerialFindSyncLoop(p, i, max_search) ==
    IF i >= max_search THEN SerialFindSyncEnd(p, max_search)
    ELSE LET byte_data == Peek(p.cb, 1)
         IN  IF byte_data = None THEN [p |-> p, ret |-> FALSE]
             ELSE IF byte_data[1] = SOF_BYTE /\ Available(p.cb) < HEADER_SIZE
             THEN [p |-> p, ret |-> TRUE]
             ELSE IF /\ byte_data[1] = SOF_BYTE
                     /\ Peek(p.cb, HEADER_SIZE) # None
                     /\ validate_header_quickly(Peek(p.cb, HEADER_SIZE))
             THEN [p |-> p, ret |-> TRUE]
             ELSE SerialFindSyncLoop([p EXCEPT !.cb = Consume(p.cb, 1).b], i + 1,
                               max_search)

\* SerialProtocolParser.find_sync: [p, ret |-> TRUE or FALSE]
serial_find_sync(p) ==
    SerialFindSyncLoop(p, 0, Min(SearchWindow, Available(p.cb)))

RECURSIVE SerialParseAttempt(_, _)
\* one round of the retry loop of parse_message after its find_sync call returned fs
SerialParseAfterSync(p, attempt, fs) ==
    LET hd == parse_header(fs.p)
        payload_size == hd.ret[1]
        total_size == HEADER_SIZE + payload_size + CRC_SIZE
        header_read == Consume(hd.p.cb, HEADER_SIZE)
        body_read == Consume(header_read.b, payload_size + CRC_SIZE)
        payload_data == Slice(body_read.ret, 0, payload_size)
        crc32_bytes == Slice(body_read.ret, payload_size, Len(body_read.ret))
        actual_payload == ActualPayload(payload_data)
        crc_ok == validate_crc32(actual_payload, UnpackU32(crc32_bytes))
        consumed == [hd.p EXCEPT !.cb = body_read.b]
        Retry(q) == IF attempt = max_attempts - 1
                    THEN [p |-> q, ret |-> NoMessage, raised |-> FALSE]
                    ELSE SerialParseAttempt(q, attempt + 1)
    IN  IF ~fs.ret THEN [p |-> fs.p, ret |-> NoMessage, raised |-> FALSE]
        ELSE IF hd.ret = None
        THEN Retry([hd.p EXCEPT !.cb = Consume(hd.p.cb, 1).b])
        ELSE IF Available(hd.p.cb) < total_size
        THEN [p |-> hd.p, ret |-> NoMessage, raised |-> FALSE]
        ELSE IF header_read.ret = None \/ header_read.ret = <<>>
        THEN Retry([hd.p EXCEPT !.cb = header_read.b])
        ELSE IF body_read.ret = None \/ body_read.ret = <<>>
        THEN Retry(Count([hd.p EXCEPT !.cb = body_read.b], "parse_errors", 1))
        ELSE IF calculate_stm32_crc32(actual_payload) = IndexError
        THEN [p |-> [consumed EXCEPT
                        !.log = Append(@, Logged(payload_data, crc32_bytes, "raised"))],
              ret |-> NoMessage, raised |-> TRUE]
        ELSE IF ~crc_ok
        THEN Retry([Count(consumed, "crc_errors", 1) EXCEPT
                        !.log = Append(@, Logged(payload_data, crc32_bytes, "crc_error"))])
        ELSE DecodeMessage(consumed, payload_data, crc32_bytes)

\* the retry loop of parse_message from the given attempt on:
\* [p, ret |-> message or NoMessage, raised |-> whether an exception left the method]
SerialParseAttempt(p, attempt) ==
    IF attempt >= max_attempts THEN [p |-> p, ret |-> NoMessage, raised |-> FALSE]
    ELSE SerialParseAfterSync(p, attempt, serial_find_sync(p))

\* SerialProtocolParser.parse_message
serial_parse_message(p) == SerialParseAttempt(p, 0)

RECURSIVE SerialProcessLoop(_, _, _, _, _, _)
\* the loop of process_messages with `left` iterations to go:
\* [p, handled |-> the messages given to handlers, ret |-> processed, raised]
SerialProcessLoop(p, handlers, handled, left, processed, consecutive_failures) ==
    IF left = 0
    THEN [p |-> p, handled |-> handled, ret |-> processed, raised |-> FALSE]
    ELSE LET m == serial_parse_message(p)
         IN  IF m.raised
             THEN [p |-> m.p, handled |-> handled, ret |-> processed, raised |-> TRUE]
             ELSE IF m.ret = NoMessage
             THEN IF consecutive_failures + 1 > MaxConsecutiveFailures
                  THEN [p |-> m.p, handled |-> handled, ret |-> processed,
                        raised |-> FALSE]
                  ELSE SerialProcessLoop(m.p, handlers, handled, left - 1, processed,
                                   consecutive_failures + 1)
             ELSE IF m.ret.msg_type \in handlers
             THEN SerialProcessLoop(m.p, handlers, Append(handled, m.ret), left - 1,
                              processed + 1, 0)
             ELSE SerialProcessLoop(m.p, handlers, handled, left - 1, processed, 0)

\* SerialProtocolParser.process_messages
serial_process_messages(p, handlers, handled, max_messages) ==
    SerialProcessLoop(p, handlers, handled, max_messages, 0, 0)


(***************************************************************************)
(* The specification of the two parsers side by side: a                    *)
(* RobustProtocolParser and a SerialProtocolParser are given the same      *)
(* bytes by add_data and the same process_messages calls, with the same    *)
(* handlers registered by the caller; a transmission of one item may come  *)
(* after noise longer than the search window.  Here receiver is the        *)
(* SerialProtocolParser with the messages its handlers were given and the  *)
(* result of its last call.                                                *)
(***************************************************************************)
\* the message types the caller registers a handler for, on both parsers
EquivHandlers == {HEARTBEAT, DEBUG_INFO}

InitEquiv ==
    /\ parser = NewParser(SeqBufSize)
    /\ receiver = [p |-> NewSerialParser(SeqBufSize), dispatched |-> <<>>, ret |-> 0,
                   raised |-> FALSE]
    /\ dispatched = <<>>
    /\ sent \in Transmissions
    /\ wire \in {Flatten(sent, 1)}
                  \cup {LoopNoise \o Flatten(sent, 1) : k \in {1} \cap {Len(sent)}}
    /\ call = NoParserCall
    /\ oversized = FALSE
    /\ cb = NewCircularBuffer(BufSize)
    /\ last = NoCall
    /\ tag = 0
    /\ threads = NoThreads

\* add_data on both parsers with the next bytes
EquivAdd ==
    /\ wire # <<>>
    /\ \E n \in {1, MaxChunk, Len(wire)} :
          /\ n >= 1 /\ n <= Len(wire)
          /\ LET data == SubSeq(wire, 1, n)
                 a == add_data(parser, data)
                 b == add_data(receiver.p, data)
             IN  /\ parser' = a.p
                 /\ call' = [NoParserCall EXCEPT !.op = "add_data", !.ret = a.ret]
                 /\ receiver' = [receiver EXCEPT !.p = b.p, !.ret = b.ret, !.raised = FALSE]
          /\ wire' = SubSeq(wire, n + 1, Len(wire))
    /\ UNCHANGED <<dispatched, sent, oversized, cb, last, tag, threads>>

\* process_messages on both parsers; the RobustProtocolParser has its default handlers
\* besides those of the caller
EquivProcess ==
    /\ \E r \in {process_messages(parser, DefaultHandlers \cup EquivHandlers, dispatched,
                                  DefaultMaxMessages)} :
          /\ parser' = r.p
          /\ dispatched' = r.handled
          /\ call' = [NoParserCall EXCEPT !.op = "process_messages", !.ret = r.ret,
                                          !.raised = r.raised]
    /\ \E r \in {serial_process_messages(receiver.p, EquivHandlers, receiver.dispatched,
                                         DefaultMaxMessages)} :
          receiver' = [p |-> r.p, dispatched |-> r.handled, ret |-> r.ret,
                       raised |-> r.raised]
    /\ UNCHANGED <<wire, sent, oversized, cb, last, tag, threads>>

NextEquiv == EquivAdd \/ EquivProcess

SpecEquiv == InitEquiv /\ [][NextEquiv]_vars

\* the messages among ms that went to a handler of the caller
ToCaller(ms) == SelectSeq(ms, LAMBDA m : m.msg_type \in EquivHandlers)

\* C35: after every call the two parsers have given the caller's handlers the same
\* messages in the same order, have parsed the same frames with the same outcomes, hold
\* the same unread bytes and have equal counters messages_received, sync_errors,
\* checksum_errors, crc_errors, parse_errors and messages_dropped
C35_ParsersAgree ==
    /\ receiver.dispatched = ToCaller(dispatched)
    /\ receiver.p.log = parser.log
    /\ receiver.p.cb = parser.cb
    /\ receiver.raised = call.raised
    /\ \A key \in {"messages_received", "sync_errors", "checksum_errors", "crc_errors",
                   "parse_errors", "messages_dropped"} :
          receiver.p.stats[key] = parser.stats[key]

\* C35 witness: both parsers counted a scan that ran out of its window and then gave
\* a message to a handler of the caller
C35_Witness ==
    /\ parser.stats.sync_errors >= 1
    /\ receiver.p.stats.sync_errors >= 1
    /\ receiver.p.stats.messages_received >= 1
    /\ receiver.dispatched # <<>>

\* the number process_messages returns is the same on both parsers
C35_SameProcessedCount == receiver.ret = call.ret


(***************************************************************************)
(* SimpleProtocolParser of test_simple_protocol.py: a text header line     *)
(* "JPG 320 240 15234\n" followed by that many bytes of JPEG data.  The    *)
(* parser object is a record [buffer, stats]; a str is the sequence of its *)
(* character codes.                                                        *)
(***************************************************************************)
\* the characters str.split() and str.strip() take for whitespace
Whitespace == {9, 10, 11, 12, 13, 28, 29, 30, 31, 32}

\* the characters '0'..'9'
DigitChars == 48..57

\* SimpleProtocolParser.__init__
NewSimpleParser ==
    [buffer |-> <<>>,
     stats |-> [bytes_received |-> 0, frames_found |-> 0, frames_decoded |-> 0,
                jpg_frames |-> 0, aln_frames |-> 0]]

\* buffer.find(bytes([b])): the 0-based position of the first byte b, or -1
FindByte(buffer, b) ==
    LET hits == {i \in 0..(Len(buffer) - 1) : buffer[i + 1] = b}
    IN  IF hits = {} THEN 0 - 1 ELSE CHOOSE i \in hits : \A j \in hits : i <= j

\* bytes.decode('ascii', errors='ignore')
DecodeAscii(bytes) == SelectSeq(bytes, LAMBDA c : c < 128)

\* header.strip().split(): the words of the characters s, a word being a longest run
\* of characters that are not whitespace
Split(s) ==
    LET starts == {i \in 1..Len(s) :
                      s[i] \notin Whitespace /\ (i = 1 \/ s[i - 1] \in Whitespace)}
        ends == {i \in 1..Len(s) :
                    s[i] \notin Whitespace /\ (i = Len(s) \/ s[i + 1] \in Whitespace)}
        Nth(set, k) == CHOOSE x \in set : Cardinality({y \in set : y < x}) = k - 1
    IN  [k \in 1..Cardinality(starts) |-> SubSeq(s, Nth(starts, k), Nth(ends, k))]

\* the ValueError of int()
ValueError == 0 - 1

RECURSIVE DigitsValue(_, _)
DigitsValue(word, value) ==
    IF word = <<>> THEN value
    ELSE DigitsValue(Tail(word), 10 * value + (Head(word) - 48))

\* int(word) for a word of at most 9 characters without sign or underscore: its value,
\* or ValueError
IntOf(word) ==
    IF word # <<>> /\ Len(word) <= 9 /\ \A i \in 1..Len(word) : word[i] \in DigitChars
    THEN DigitsValue(word, 0) ELSE ValueError

\* the words 'JPG' and 'ALN'
WordJpg == <<74, 80, 71>>
WordAln == <<65, 76, 78>>

\* SimpleProtocolParser.decode_frame: the test for the JPEG start compares with the eight
\* characters \xff\xd8 and fails for JPEG data, and data that starts with them is no
\* image, so that no frame is decoded and frames_decoded stays as it is
decode_frame(r, jpeg_data, frame_type, width, height) == [r |-> r, ret |-> FALSE]

\* SimpleProtocolParser.parse_frame_header: [r |-> parser afterwards, ret |-> TRUE or FALSE]
parse_frame_header(r, header, data_start) ==
    LET parts == Split(header)
    IN  IF Len(parts) >= 4 /\ parts[1] \in {WordJpg, WordAln}
        THEN LET frame_type == parts[1]
                 width == IntOf(parts[2])
                 height == IntOf(parts[3])
                 jpeg_size == IntOf(parts[4])
             IN  IF ValueError \in {width, height, jpeg_size} THEN [r |-> r, ret |-> FALSE]
                 ELSE IF ~(/\ 10 <= width /\ width <= 2000
                           /\ 10 <= height /\ height <= 2000
                           /\ 100 <= jpeg_size /\ jpeg_size <= 100 * 1024)
                 THEN [r |-> r, ret |-> FALSE]
                 ELSE IF Len(r.buffer) >= data_start + jpeg_size
                 THEN LET jpeg_data == Slice(r.buffer, data_start, data_start + jpeg_size)
                          d == decode_frame(r, jpeg_data, frame_type, width, height).r
                      IN  [r |-> [d EXCEPT
                                    !.buffer = Slice(d.buffer, data_start + jpeg_size,
                                                     Len(d.buffer)),
                                    !.stats.frames_found = @ + 1,
                                    !.stats.jpg_frames =
                                        IF frame_type = WordJpg THEN @ + 1 ELSE @,
                                    !.stats.aln_frames =
                                        IF frame_type = WordAln THEN @ + 1 ELSE @],
                           ret |-> TRUE]
                 ELSE [r |-> r, ret |-> FALSE]
        ELSE [r |-> r, ret |-> FALSE]

RECURSIVE process_buffer(_)
\* SimpleProtocolParser.process_buffer
process_buffer(r) ==
    LET newline_pos == FindByte(r.buffer, 10)
        header_line == DecodeAscii(Slice(r.buffer, 0, newline_pos))
        parsed == parse_frame_header(r, header_line, newline_pos + 1)
    IN  IF newline_pos = -1 THEN r
        ELSE IF parsed.ret THEN process_buffer(parsed.r)
        ELSE process_buffer([parsed.r EXCEPT
                                !.buffer = Slice(@, newline_pos + 1, Len(@))])

\* SimpleProtocolParser.add_data
simple_add_data(r, data) ==
    LET extended == [r EXCEPT !.buffer = @ \o data, !.stats.bytes_received = @ + Len(data)]
        processed == process_buffer(extended)
    IN  IF Len(processed.buffer) > 2 * 1024 * 1024
        THEN [processed EXCEPT
                 !.buffer = Slice(@, Len(@) - 1024 * 1024, Len(@))]
        ELSE processed


(***************************************************************************)
(* The specification of the text protocol: frames are sent as the firmware *)
(* sends them and arrive in chunks, each given to add_data.  Here sent is  *)
(* the frames, wire the bytes that have not arrived, receiver the          *)
(* SimpleProtocolParser and last the add_data call just made.              *)
(***************************************************************************)
RECURSIVE DigitsOf(_)
\* str(n).encode() for n >= 0
DigitsOf(n) == IF n < 10 THEN <<48 + n>> ELSE DigitsOf(n \div 10) \o <<48 + (n % 10)>>

\* JPEG data of 100 bytes, without and with a newline character in it
JpegPlain == JpegBytes(100)
JpegWithNewline == <<255, 216>> \o Run(1, 47) \o <<10>> \o Run(1, 48) \o <<255, 217>>

\* the frames sent: 'JPG' and 'ALN' frames, a frame of a width below 10 and a frame
\* with the tag 'RAW'
SimpleFrames ==
    [type : {WordJpg, WordAln}, width : {320}, height : {240},
     data : {JpegPlain, JpegWithNewline}]
      \cup [type : {WordJpg}, width : {5}, height : {240}, data : {JpegPlain}]
      \cup [type : {TagRaw}, width : {320}, height : {240}, data : {JpegPlain}]

\* the header line and the data of a frame
SimpleHeader(f) ==
    f.type \o <<32>> \o DigitsOf(f.width) \o <<32>> \o DigitsOf(f.height) \o <<32>>
        \o DigitsOf(Len(f.data)) \o <<10>>
SimpleFrame(f) == SimpleHeader(f) \o f.data

RECURSIVE SimpleFlatten(_, _)
SimpleFlatten(frames, i) ==
    IF i > Len(frames) THEN <<>>
    ELSE SimpleFrame(frames[i]) \o SimpleFlatten(frames, i + 1)

\* one frame, or two 'JPG' frames in a row
SimpleTransmissions ==
    {<<f>> : f \in SimpleFrames}
      \cup {<<f, f>> : f \in {g \in SimpleFrames : g.type = WordJpg /\ g.width = 320}}

InitSimple ==
    /\ receiver = NewSimpleParser
    /\ sent \in SimpleTransmissions
    /\ wire = SimpleFlatten(sent, 1)
    /\ last = NoCall
    /\ parser = NewParser(ParserBufSize)
    /\ dispatched = <<>>
    /\ call = NoParserCall
    /\ oversized = FALSE
    /\ cb = NewCircularBuffer(BufSize)
    /\ tag = 0
    /\ threads = NoThreads

\* the next bytes arrive and are given to add_data
SimpleAdd ==
    /\ wire # <<>>
    /\ \E n \in {1, MaxChunk, 50, Len(wire)} :
          /\ n <= Len(wire)
          /\ receiver' = simple_add_data(receiver, SubSeq(wire, 1, n))
          /\ last' = [NoCall EXCEPT !.op = "add_data", !.n = n]
          /\ wire' = SubSeq(wire, n + 1, Len(wire))
    /\ UNCHANGED <<sent, cb, tag, threads, oversized, parser, dispatched, call>>

NextSimple == SimpleAdd

SpecSimple == InitSimple /\ [][NextSimple]_vars

\* a frame whose header line passes the checks of parse_frame_header
SimpleValid(f) ==
    /\ f.type \in {WordJpg, WordAln}
    /\ 10 <= f.width /\ f.width <= 2000 /\ 10 <= f.height /\ f.height <= 2000
    /\ 100 <= Len(f.data) /\ Len(f.data) <= 100 * 1024

\* the bytes of the transmission that have been given to add_data
SimpleArrived == SubSeq(SimpleFlatten(sent, 1), 1, Len(SimpleFlatten(sent, 1)) - Len(wire))

\* C36: when the header line of a valid 'JPG' or 'ALN' frame has arrived and its data
\* has not all arrived, the buffer is left as it is, and once the remaining bytes have
\* been added the frame is extracted and counted
C36_WaitsForFrameData ==
    (Len(sent) = 1 /\ SimpleValid(sent[1])) =>
        /\ (Len(SimpleArrived) >= Len(SimpleHeader(sent[1])) /\ wire # <<>>) =>
              receiver.buffer = SimpleArrived
        /\ wire = <<>> =>
              /\ receiver.stats.frames_found = 1
              /\ receiver.buffer = <<>>

\* what holds of C36: a valid frame that is whole in the buffer when its header line is
\* first looked at is extracted and counted
C36_WholeFrameCounted ==
    (/\ Len(sent) = 1 /\ SimpleValid(sent[1]) /\ wire = <<>>
     /\ last.n > Len(sent[1].data)) =>
        /\ receiver.stats.frames_found = 1
        /\ receiver.buffer = <<>>


(***************************************************************************)
(* The specification of pc_stream_receiver.py: main reads frames from the  *)
(* serial port and puts them on a queue of capacity 2, and the thread of   *)
(* display_loop takes them off and shows them.  Here threads holds the     *)
(* position of main and of the display thread, the queue, the stop event,  *)
(* the frame each of them holds and the number of frames read.  A frame is *)
(* its number; the None that main puts last is 0.                          *)
(***************************************************************************)
\* queue.Queue(maxsize=2)
QueueMaxSize == 2

\* the frames the camera sends before read_frame returns nothing but None
StreamFrames == 4

\* the key code of ESC
KeyEsc == 27

\* main after disp_thread.start()
StreamStarted ==
    [main |-> "while", disp |-> "while", queue |-> <<>>, stop_event |-> FALSE,
     frame |-> 0, shown |-> 0, read |-> 0]

InitStream ==
    /\ threads = StreamStarted
    /\ parser = NewParser(ParserBufSize)
    /\ dispatched = <<>>
    /\ sent = <<>>
    /\ wire = <<>>
    /\ call = NoParserCall
    /\ oversized = FALSE
    /\ cb = NewCircularBuffer(BufSize)
    /\ last = NoCall
    /\ tag = 0
    /\ receiver = NoReceiver

\* main: while not stop_event.is_set()
MainWhile ==
    /\ threads.main = "while"
    /\ threads' = [threads EXCEPT !.main = IF threads.stop_event THEN "finally" ELSE "read"]
    /\ UNCHANGED <<parserVars, oversized, cb, last, tag, receiver>>

\* main: read_frame, read_detections and draw_detections: a frame, no frame, or an
\* exception of the serial port or of the parsing, which leaves the loop
MainRead ==
    /\ threads.main = "read"
    /\ \/ /\ threads.read < StreamFrames
          /\ threads' = [threads EXCEPT !.main = "put", !.read = @ + 1, !.frame = threads.read + 1]
       \/ threads' = [threads EXCEPT !.main = "while"]
       \/ threads' = [threads EXCEPT !.main = "finally"]
    /\ UNCHANGED <<parserVars, oversized, cb, last, tag, receiver>>

\* main: if not frame_queue.full(): frame_queue.put(frame)
MainPut ==
    /\ threads.main = "put"
    /\ threads' = [threads EXCEPT
                      !.main = "while",
                      !.queue = IF Len(@) < QueueMaxSize THEN Append(@, threads.frame) ELSE @]
    /\ UNCHANGED <<parserVars, oversized, cb, last, tag, receiver>>

\* main: finally: stop_event.set()
MainFinally ==
    /\ threads.main = "finally"
    /\ threads' = [threads EXCEPT !.main = "put_none", !.stop_event = TRUE]
    /\ UNCHANGED <<parserVars, oversized, cb, last, tag, receiver>>

\* main: frame_queue.put(None), which blocks while the queue is full
MainPutNone ==
    /\ threads.main = "put_none"
    /\ Len(threads.queue) < QueueMaxSize
    /\ threads' = [threads EXCEPT !.main = "join", !.queue = Append(@, 0)]
    /\ UNCHANGED <<parserVars, oversized, cb, last, tag, receiver>>

\* main: disp_thread.join(), which blocks until display_loop has returned, and ser.close()
MainJoin ==
    /\ threads.main = "join"
    /\ threads.disp = "returned"
    /\ threads' = [threads EXCEPT !.main = "closed"]
    /\ UNCHANGED <<parserVars, oversized, cb, last, tag, receiver>>

\* display_loop: while not stop_event.is_set()
DisplayWhile ==
    /\ threads.disp = "while"
    /\ threads' = [threads EXCEPT !.disp = IF threads.stop_event THEN "returned" ELSE "get"]
    /\ UNCHANGED <<parserVars, oversized, cb, last, tag, receiver>>

\* display_loop: frame = q.get(), which blocks while the queue is empty, and the test
\* for None
DisplayGet ==
    /\ threads.disp = "get"
    /\ threads.queue # <<>>
    /\ threads' = [threads EXCEPT
                      !.disp = IF Head(threads.queue) = 0 THEN "returned" ELSE "show",
                      !.shown = Head(threads.queue),
                      !.queue = Tail(@)]
    /\ UNCHANGED <<parserVars, oversized, cb, last, tag, receiver>>

\* display_loop: the frame is shown and cv2.waitKey(1) returns a key code or -1
DisplayShow ==
    /\ threads.disp = "show"
    /\ \E key \in {KeyEsc, 0 - 1} :
          threads' = [threads EXCEPT !.disp = "while",
                                     !.stop_event = @ \/ key = KeyEsc]
    /\ UNCHANGED <<parserVars, oversized, cb, last, tag, receiver>>

MainStep == MainWhile \/ MainRead \/ MainPut \/ MainFinally \/ MainPutNone \/ MainJoin

DisplayStep == DisplayWhile \/ DisplayGet \/ DisplayShow

NextStream ==
    \/ MainWhile \/ MainRead \/ MainPut \/ MainFinally \/ MainPutNone \/ MainJoin
    \/ DisplayWhile \/ DisplayGet \/ DisplayShow

\* both threads go on running whenever they are not blocked
SpecStream ==
    /\ InitStream /\ [][NextStream]_vars
    /\ WF_vars(MainStep)
    /\ WF_vars(DisplayStep)

\* C37: once the stop event is set, shutdown completes: main gets past
\* frame_queue.put(None) and disp_thread.join() and closes the port
C37_ShutdownCompletes == threads.stop_event ~> (threads.main = "closed")

\* the state C37 fails in: the display thread has returned with the stop event set and
\* left the queue full, and main is blocked in frame_queue.put(None)
C37_PutNoneBlocked ==
    ~(/\ threads.main = "put_none" /\ Len(threads.queue) = QueueMaxSize
      /\ threads.disp = "returned")

\* what holds of C37: the display thread always returns once the stop event is set
C37_DisplayReturns == threads.stop_event ~> (threads.disp = "returned")


(***************************************************************************)
(* The specification of enhanced_protocol.py: one EnhancedProtocol object  *)
(* sends packets to a serial port whose bytes come back to its own         *)
(* receive_packet.  Here receiver is the EnhancedProtocol object, wire the *)
(* bytes the serial port holds, sent the packets written and not yet       *)
(* returned, and last the last call.  A CRC is a pair <<high 16 bits, low  *)
(* 16 bits>>; a metadata dict is a sequence of <<key, value>> pairs with   *)
(* one-letter keys and one-digit values.                                   *)
(***************************************************************************)
\* PacketHeader.sync_word, 0x12345678
ENH_SYNC_WORD == <<4660, 22136>>

\* the length receive_packet and from_bytes take the header to have
ENH_HEADER_SIZE == 18

\* struct.calcsize('<IBBHIHHI')
StructSize == 4 + 1 + 1 + 2 + 4 + 2 + 2 + 4

\* send_packet compresses payloads longer than this
CompressThreshold == 100

\* the exceptions of struct.pack and struct.unpack, and of a constructor call with
\* too many arguments
StructError == <<0 - 3>>
TypeError == <<0 - 4>>

\* the polynomial of zlib.crc32, 0xEDB88320
ZlibPoly == <<60856, 33568>>

\* c >> 1 on 32-bit values
Shr1(c) == <<c[1] \div 2, (c[1] % 2) * 32768 + c[2] \div 2>>

RECURSIVE ZlibBits(_, _)
\* the eight shifts zlib.crc32 makes for one byte; the test on c has TLC compute it in
\* every round instead of all at once at the end
ZlibBits(c, j) ==
    IF j = 0 \/ c = IndexError THEN c
    ELSE ZlibBits(IF c[2] % 2 = 1 THEN Xor32(Shr1(c), ZlibPoly) ELSE Shr1(c), j - 1)

RECURSIVE ZlibLoop(_, _)
ZlibLoop(data, c) ==
    IF data = <<>> \/ c = IndexError THEN c
    ELSE ZlibLoop(Tail(data),
                  ZlibBits(<<c[1], XorBits(c[2] % 256, Head(data), 8) + 256 * (c[2] \div 256)>>, 8))

\* zlib.crc32(data) & 0xffffffff
zlib_crc32(data) == Xor32(ZlibLoop(data, <<65535, 65535>>), <<65535, 65535>>)

RECURSIVE JsonItems(_)
JsonItems(metadata) ==
    IF metadata = <<>> THEN <<>>
    ELSE <<34, Head(metadata)[1], 34, 58, 32, 48 + Head(metadata)[2]>>
             \o (IF Len(metadata) > 1 THEN <<44, 32>> ELSE <<>>)
             \o JsonItems(Tail(metadata))

\* json.dumps(metadata).encode('utf-8')
JsonDumps(metadata) == <<123>> \o JsonItems(metadata) \o <<125>>

\* json.loads(metadata_bytes.decode('utf-8'))
JsonLoads(b) == [i \in 1..(Len(b) \div 8) |-> <<b[8 * (i - 1) + 3], b[8 * (i - 1) + 7] - 48>>]

\* PacketHeader(...)
EnhHeader(packet_type, flags, sequence, payload_length, metadata_length, crc32) ==
    [sync_word |-> ENH_SYNC_WORD, packet_type |-> packet_type, flags |-> flags,
     sequence |-> sequence, payload_length |-> payload_length,
     metadata_length |-> metadata_length, crc32 |-> crc32]

\* PacketHeader.to_bytes: struct.pack('<IBBHIHHI', ...), where the CRC is given to the
\* second H and a 0 to the last I; struct.pack raises for an H above 65535
to_bytes(h) ==
    IF h.crc32[1] # 0 \/ h.metadata_length > 65535 \/ h.sequence > 65535
    THEN StructError
    ELSE PackU32(h.sync_word) \o <<h.packet_type, h.flags>> \o PackU16(h.sequence)
             \o PackU32(<<h.payload_length \div 65536, h.payload_length % 65536>>)
             \o PackU16(h.metadata_length) \o PackU16(h.crc32[2]) \o PackU32(<<0, 0>>)

\* struct.unpack('<IBBHIHHI', data), which raises unless data has the size of the
\* format
StructUnpack(data) ==
    IF Len(data) # StructSize THEN StructError
    ELSE <<UnpackU32(SubSeq(data, 1, 4)), data[5], data[6], UnpackU16(SubSeq(data, 7, 8)),
           UnpackU32(SubSeq(data, 9, 12)), UnpackU16(SubSeq(data, 13, 14)),
           UnpackU16(SubSeq(data, 15, 16)), UnpackU32(SubSeq(data, 17, 20))>>

\* PacketHeader.from_bytes: the header, or the exception raised; cls(*values) gets the
\* eight values of the format for the seven fields of the class
from_bytes(data) ==
    IF Len(data) < ENH_HEADER_SIZE THEN <<ValueError>>
    ELSE LET values == StructUnpack(SubSeq(data, 1, ENH_HEADER_SIZE))
         IN IF values = StructError THEN StructError ELSE TypeError

\* EnhancedProtocol.__init__
NewEnhancedProtocol ==
    [tx_sequence |-> 0, rx_sequence |-> 0,
     stats |-> [packets_sent |-> 0, packets_received |-> 0, bytes_sent |-> 0,
                bytes_received |-> 0, crc_errors |-> 0, sync_errors |-> 0, timeouts |-> 0]]

\* a packet as its sender and its receiver know it
EnhPacket(packet_type, sequence, payload, metadata) ==
    [packet_type |-> packet_type, sequence |-> sequence, payload |-> payload,
     metadata |-> metadata]

\* None, returned by receive_packet
NoPacket == EnhPacket(0 - 1, 0 - 1, <<>>, <<>>)

\* metadata_bytes of send_packet
MetadataBytes(metadata) == IF metadata # <<>> THEN JsonDumps(metadata) ELSE <<>>

\* header.to_bytes() + metadata_bytes + payload
HeaderThenData(header_bytes, metadata_bytes, payload) ==
    IF header_bytes = StructError THEN StructError
    ELSE header_bytes \o metadata_bytes \o payload

\* packet_data of send_packet for metadata_bytes
PacketBytes(packet_type, sequence, payload, metadata_bytes) ==
    HeaderThenData(to_bytes(EnhHeader(packet_type, 0, sequence, Len(payload),
                                      Len(metadata_bytes),
                                      zlib_crc32(payload \o metadata_bytes))),
                   metadata_bytes, payload)

\* the bytes send_packet makes of a packet, or StructError; payloads of at most
\* CompressThreshold bytes are sent as they are, with flags 0
packet_data(packet_type, sequence, payload, metadata) ==
    PacketBytes(packet_type, sequence, payload, MetadataBytes(metadata))

\* EnhancedProtocol.send_packet on the serial port holding stream: r is the object
\* afterwards, stream the port afterwards, ret what is returned
send_packet(r, stream, packet_type, payload, metadata) ==
    LET data == packet_data(packet_type, r.tx_sequence, payload, metadata)
    IN IF data = StructError THEN [r |-> r, stream |-> stream, ret |-> FALSE]
       ELSE [r |-> [r EXCEPT !.tx_sequence = (@ + 1) % 65536,
                             !.stats.packets_sent = @ + 1,
                             !.stats.bytes_sent = @ + Len(data)],
             stream |-> stream \o data, ret |-> TRUE]

\* self.serial.read(n): the first n bytes the port holds, fewer at the timeout
SerialRead(stream, n) == SubSeq(stream, 1, Min(n, Len(stream)))

\* what self.serial.read(n) leaves in the port
SerialRest(stream, n) == SubSeq(stream, Min(n, Len(stream)) + 1, Len(stream))

\* receive_packet from the header on
ReceiveAfterSync(r, stream, sync_buffer) ==
    LET header_data == sync_buffer \o SerialRead(stream, ENH_HEADER_SIZE - 4)
        rest == SerialRest(stream, ENH_HEADER_SIZE - 4)
        header == from_bytes(header_data)
    IN IF Len(header_data) # ENH_HEADER_SIZE THEN [r |-> r, stream |-> rest, ret |-> NoPacket]
       ELSE IF header \in {<<ValueError>>, StructError, TypeError}
            THEN [r |-> r, stream |-> rest, ret |-> NoPacket]
       ELSE LET metadata_bytes == SerialRead(rest, header.metadata_length)
                rest2 == SerialRest(rest, header.metadata_length)
                payload_bytes == SerialRead(rest2, header.payload_length)
                rest3 == SerialRest(rest2, header.payload_length)
            IN IF zlib_crc32(payload_bytes \o metadata_bytes) # header.crc32
               THEN [r |-> [r EXCEPT !.stats.crc_errors = @ + 1], stream |-> rest3,
                     ret |-> NoPacket]
               ELSE [r |-> [r EXCEPT !.stats.packets_received = @ + 1,
                                     !.stats.bytes_received =
                                         @ + Len(header_data) + Len(metadata_bytes)
                                           + Len(payload_bytes)],
                     stream |-> rest3,
                     ret |-> EnhPacket(header.packet_type, header.sequence, payload_bytes,
                                       IF metadata_bytes # <<>> THEN JsonLoads(metadata_bytes)
                                       ELSE <<>>)]

RECURSIVE ReceiveSync(_, _, _)
\* the while loop of receive_packet with sync_buffer read so far: with nothing left
\* in the port the timeout passes; struct.unpack('<I', sync_buffer) raises unless
\* sync_buffer has 4 bytes, and the exception makes receive_packet return None
ReceiveSync(r, stream, sync_buffer) ==
    IF Len(sync_buffer) >= 4
    THEN [r |-> [r EXCEPT !.stats.sync_errors = @ + 1], stream |-> stream, ret |-> NoPacket]
    ELSE IF stream = <<>>
    THEN [r |-> [r EXCEPT !.stats.timeouts = @ + 1], stream |-> stream, ret |-> NoPacket]
    ELSE LET buffer == sync_buffer \o SerialRead(stream, 1)
             rest == SerialRest(stream, 1)
             next == SubSeq(buffer, Len(buffer) - Min(4, Len(buffer)) + 1, Len(buffer))
         IN IF Len(next) # 4 THEN [r |-> r, stream |-> rest, ret |-> NoPacket]
            ELSE IF UnpackU32(next) = ENH_SYNC_WORD THEN ReceiveAfterSync(r, rest, next)
            ELSE ReceiveSync(r, rest, next)

\* EnhancedProtocol.receive_packet
receive_packet(r, stream) == ReceiveSync(r, stream, <<>>)

\* PacketType.FRAME_DATA and PacketType.HEARTBEAT
ENH_FRAME_DATA == 1
ENH_HEARTBEAT == 7

\* the send_packet calls made
MaxPackets == 2

\* the receive_packet calls that end by the timeout
MaxTimeouts == 2

\* the packets given to send_packet, as <<packet type, payload, metadata>>: a heartbeat
\* without payload, a frame whose CRC is below 65536 (0x65E3), a frame whose CRC is
\* not, and a heartbeat with the metadata {"a": 1}
EnhPackets ==
    {<<ENH_HEARTBEAT, <<>>, <<>>>>, <<ENH_FRAME_DATA, <<111, 98>>, <<>>>>,
     <<ENH_FRAME_DATA, <<97, 98>>, <<>>>>, <<ENH_HEARTBEAT, <<>>, <<<<97, 1>>>>>>}

\* what the port holds before the first packet: nothing, a byte of noise, and noise
\* that ends with the first byte of the sync word
EnhNoise == {<<>>, <<85>>, <<85, 120>>}

InitEnhanced ==
    /\ receiver = NewEnhancedProtocol
    /\ wire \in EnhNoise
    /\ sent = <<>>
    /\ last = [op |-> "init", data |-> <<>>, pending |-> <<>>, ret |-> NoPacket, sends |-> 0,
               crc32 |-> <<0, 0>>, ok |-> FALSE]
    /\ parser = NewParser(ParserBufSize)
    /\ dispatched = <<>>
    /\ call = NoParserCall
    /\ oversized = FALSE
    /\ cb = NewCircularBuffer(BufSize)
    /\ tag = 0
    /\ threads = NoThreads

\* a call of send_packet
EnhancedSend ==
    /\ last.sends < MaxPackets
    /\ \E packet \in EnhPackets, compress \in BOOLEAN :
          /\ ~(compress /\ Len(packet[2]) > CompressThreshold)
          /\ \E res \in {send_packet(receiver, wire, packet[1], packet[2], packet[3])},
                crc32 \in {zlib_crc32(packet[2] \o MetadataBytes(packet[3]))} :
                /\ receiver' = res.r
                /\ wire' = res.stream
                /\ sent' = IF res.ret
                           THEN Append(sent, EnhPacket(packet[1], receiver.tx_sequence,
                                                       packet[2], packet[3]))
                           ELSE sent
                /\ last' = [last EXCEPT
                               !.op = "send_packet", !.data = wire, !.pending = sent,
                               !.sends = @ + 1, !.ok = res.ret, !.crc32 = crc32]
    /\ UNCHANGED <<parser, dispatched, call, oversized, cb, tag, threads>>

\* a call of receive_packet; the calls that end by the timeout are counted up to
\* MaxTimeouts
EnhancedReceive ==
    /\ wire = <<>> => receiver.stats.timeouts < MaxTimeouts
    /\ \E res \in {receive_packet(receiver, wire)} :
          /\ receiver' = res.r
          /\ wire' = res.stream
          /\ sent' = IF res.ret # NoPacket /\ sent # <<>> THEN Tail(sent) ELSE sent
          /\ last' = [last EXCEPT !.op = "receive_packet", !.data = wire, !.pending = sent,
                                  !.ret = res.ret]
    /\ UNCHANGED <<parser, dispatched, call, oversized, cb, tag, threads>>

NextEnhanced == EnhancedSend \/ EnhancedReceive

SpecEnhanced == InitEnhanced /\ [][NextEnhanced]_vars

RECURSIVE WrittenAll(_)
\* the bytes send_packet wrote for the packets ps
WrittenAll(ps) ==
    IF ps = <<>> THEN <<>>
    ELSE packet_data(Head(ps).packet_type, Head(ps).sequence, Head(ps).payload,
                     Head(ps).metadata) \o WrittenAll(Tail(ps))

\* the port held, after noise, the whole of the packets written and not yet returned
HoldsPackets ==
    /\ last.op = "receive_packet"
    /\ last.pending # <<>>
    /\ \E noise \in EnhNoise : last.data = noise \o WrittenAll(last.pending)

\* C38: receive_packet returns the packet send_packet wrote to the stream it reads,
\* with equal packet type, sequence, payload and metadata, wherever the sync word
\* begins in the stream
C38_PacketReturned == HoldsPackets => last.ret = Head(last.pending)

\* C38, the header: send_packet writes a packet whatever the 32-bit CRC of its payload
\* and metadata is
C38_AnyCrcSent == last.op = "send_packet" => last.ok

\* what holds of C38: send_packet writes a packet exactly when the CRC is below 65536,
\* and receive_packet returns None and counts nothing received
C38_NothingReceived ==
    /\ last.op = "send_packet" => (last.ok <=> last.crc32[1] = 0)
    /\ last.op = "receive_packet" => last.ret = NoPacket
    /\ receiver.stats.packets_received = 0

\* what holds of C38: a receive_packet call on a port that holds bytes reads one byte
\* and no more
C38_OneByteRead ==
    (last.op = "receive_packet" /\ last.data # <<>>) => wire = Tail(last.data)

====
